---------------------------- MODULE Spec2Model ----------------------------
(***************************************************************************)
(* Model of the transaction-log parser of                                  *)
(* src/src/anomaly_detection/components/data_parser.py.                    *)
(*                                                                         *)
(* Text is a sequence of characters; a character is a one-letter string,   *)
(* except the non-ASCII ones, which carry a name: "euro" (U+20AC),         *)
(* "pound" (U+00A3), "acirc" (U+00E2), "Acirc" (U+00C2), "sbquo" (U+201A)  *)
(* and "notsign" (U+00AC).  The mis-decoded euro sign is the three         *)
(* characters acirc sbquo notsign, the mis-decoded pound sign the two      *)
(* characters Acirc pound.                                                 *)
(*                                                                         *)
(* An optional value (Python's None, pandas' NaN/NaT) is a sequence of     *)
(* length 0 or 1: None is << >>, a present value v is << v >>.             *)
(***************************************************************************)
EXTENDS Integers, Sequences, FiniteSets, TLC

VARIABLES
    pc,               \* position of the driver: idle, loop, post, returned, raised
    csv_file_path,    \* argument of clean_transaction_logs (optional text)
    raw_data,         \* argument of clean_transaction_logs (optional text)
    file_text,        \* content of the file csv_file_path names
    valid_lines,      \* the filtered lines
    idx,              \* number of filtered lines already parsed
    cleaned_records,  \* records appended so far
    trace,            \* per parsed line: what parse_transaction_line did
    stdout,           \* lines printed by parse_transaction_line
    df,               \* the returned DataFrame (optional)
    fn_arg,           \* argument of a field extractor called on its own
    fn_out            \* what that call returned (optional)

batch_vars == <<pc, csv_file_path, raw_data, file_text, valid_lines, idx,
                cleaned_records, trace, stdout, df>>
fn_vars == <<fn_arg, fn_out>>
vars == <<batch_vars, fn_vars>>

-----------------------------------------------------------------------------
(* Optional values *)

None == << >>
Some(v) == << v >>
IsNone(o) == o = << >>

-----------------------------------------------------------------------------
(* Characters and character classes *)

Digit == {"0", "1", "2", "3", "4", "5", "6", "7", "8", "9"}
DigitSeq == <<"0", "1", "2", "3", "4", "5", "6", "7", "8", "9">>
UpperSeq == <<"A", "B", "C", "D", "E", "F", "G", "H", "I", "J", "K", "L", "M",
              "N", "O", "P", "Q", "R", "S", "T", "U", "V", "W", "X", "Y", "Z",
              "Acirc">>
LowerSeq == <<"a", "b", "c", "d", "e", "f", "g", "h", "i", "j", "k", "l", "m",
              "n", "o", "p", "q", "r", "s", "t", "u", "v", "w", "x", "y", "z",
              "acirc">>
Range(s) == {s[i] : i \in 1..Len(s)}
Upper == Range(UpperSeq)
Lower == Range(LowerSeq)
\* \s of re and the characters str.strip() removes
Space == {" ", "\t", "\r", "\n"}
CurrencyGlyph == {"euro", "pound", "$"}
Punct == {":", "|", "-", ">", "<", "[", "]", "=", "/", "*", "@", ".", ",",
          "\"", "sbquo", "notsign", "#"}
\* \w of re (str pattern: Unicode letters, digits and the underscore)
Word == Upper \cup Lower \cup Digit \cup {"_"}
Alphabet == Word \cup Space \cup CurrencyGlyph \cup Punct
\* . of re: anything but a newline
Dot == Alphabet \ {"\n"}
Not(cs) == Alphabet \ cs

\* str.lower() of one character
LowerChar(c) ==
    IF c \in Upper
    THEN LowerSeq[CHOOSE i \in 1..Len(UpperSeq) : UpperSeq[i] = c]
    ELSE c
\* str.lower()
LowerStr(s) == [i \in 1..Len(s) |-> LowerChar(s[i])]

DigitVal(c) == (CHOOSE i \in 1..Len(DigitSeq) : DigitSeq[i] = c) - 1

\* s[i:] starts with t
StartsAt(s, i, t) ==
    /\ i + Len(t) - 1 <= Len(s)
    /\ \A k \in 1..Len(t) : s[i + k - 1] = t[k]
\* str.startswith
StartsWith(s, t) == StartsAt(s, 1, t)
\* t in s
Contains(s, t) == \E i \in 1..(Len(s) - Len(t) + 1) : StartsAt(s, i, t)

RECURSIVE ReplaceFrom(_, _, _, _)
ReplaceFrom(s, i, bad, good) ==
    IF i > Len(s) THEN << >>
    ELSE IF StartsAt(s, i, bad)
         THEN good \o ReplaceFrom(s, i + Len(bad), bad, good)
         ELSE <<s[i]>> \o ReplaceFrom(s, i + 1, bad, good)
\* str.replace(bad, good): every non-overlapping occurrence, left to right
Replace(s, bad, good) == ReplaceFrom(s, 1, bad, good)

Min(S) == CHOOSE x \in S : \A y \in S : x <= y
Max(S) == CHOOSE x \in S : \A y \in S : x >= y

\* str.strip(): from the first to the last character that is not a space
Strip(s) ==
    LET solid == {i \in 1..Len(s) : s[i] \notin Space}
    IN  IF solid = {} THEN << >> ELSE SubSeq(s, Min(solid), Max(solid))

\* str.split('\n'): the pieces between the newlines, one more than there
\* are newlines
SplitLines(s) ==
    LET nl == {i \in 1..Len(s) : s[i] = "\n"}
        \* the position of the k-th newline; 0 and Len(s) + 1 bound the text
        cut(k) == IF k = 0 THEN 0
                  ELSE IF k > Cardinality(nl) THEN Len(s) + 1
                  ELSE CHOOSE i \in nl : Cardinality({j \in nl : j < i}) = k - 1
    IN  [k \in 1..(Cardinality(nl) + 1) |-> SubSeq(s, cut(k - 1) + 1, cut(k) - 1)]

-----------------------------------------------------------------------------
(* Regular expressions: a pattern is a sequence of items, each a character *)
(* class with a repetition count, or an alternation of literal texts; g is *)
(* the capture group the item belongs to (0: none).  A match is anchored   *)
(* at both ends (re.match with ^...$) and found by greedy backtracking.    *)

Exactly(cs, n, g) == [kind |-> "rep", cs |-> cs, lo |-> n, hi |-> n, many |-> FALSE, g |-> g]
Optional(cs, g)   == [kind |-> "rep", cs |-> cs, lo |-> 0, hi |-> 1, many |-> FALSE, g |-> g]
Plus(cs, g)       == [kind |-> "rep", cs |-> cs, lo |-> 1, hi |-> 1, many |-> TRUE, g |-> g]
Alt(texts, g)     == [kind |-> "alt", alts |-> texts, g |-> g]
\* a literal text is an alternation of one
Lit(text, g)      == <<Alt(<<text>>, g)>>

NGroups == 7
NoCaps == [g \in 1..NGroups |-> << >>]
NoMatch == [ok |-> FALSE, caps |-> NoCaps]
Capture(r, g, text) ==
    IF g = 0 THEN r ELSE [r EXCEPT !.caps[g] = text \o @]

\* the longest prefix of s[j..] made of characters of cs, at most limit long
RunLen(s, j, cs, limit) ==
    LET last == IF Len(s) < j + limit - 1 THEN Len(s) ELSE j + limit - 1
        stops == {k \in j..last : s[k] \notin cs}
    IN  (IF stops = {} THEN last + 1 ELSE Min(stops)) - j

RECURSIVE MatchFrom(_, _, _, _)
RECURSIVE TryLen(_, _, _, _, _)
RECURSIVE TryAlt(_, _, _, _, _)
MatchFrom(pat, p, s, j) ==
    IF p > Len(pat)
    THEN IF j = Len(s) + 1 \/ (j = Len(s) /\ s[j] = "\n")
         THEN [ok |-> TRUE, caps |-> NoCaps] ELSE NoMatch
    ELSE IF pat[p].kind = "rep"
         THEN TryLen(pat, p, s, j,
                     RunLen(s, j, pat[p].cs,
                            IF pat[p].many THEN Len(s) ELSE pat[p].hi))
         ELSE TryAlt(pat, p, s, j, 1)
TryLen(pat, p, s, j, k) ==
    IF k < pat[p].lo THEN NoMatch
    ELSE LET r == MatchFrom(pat, p + 1, s, j + k)
         IN  IF r.ok THEN Capture(r, pat[p].g, SubSeq(s, j, j + k - 1))
             ELSE TryLen(pat, p, s, j, k - 1)
TryAlt(pat, p, s, j, a) ==
    IF a > Len(pat[p].alts) THEN NoMatch
    ELSE LET t == pat[p].alts[a]
             r == IF StartsAt(s, j, t)
                  THEN MatchFrom(pat, p + 1, s, j + Len(t)) ELSE NoMatch
         IN  IF r.ok THEN Capture(r, pat[p].g, t)
             ELSE TryAlt(pat, p, s, j, a + 1)

\* re.match(pattern, s) for a pattern of the form ^...$ ($ matches at the
\* end of s and before a newline that ends s)
ReMatch(pat, s) == MatchFrom(pat, 1, s, 1)

-----------------------------------------------------------------------------
(* Values *)

RECURSIVE NumVal(_)
\* int() of a run of decimal digits
NumVal(ds) ==
    IF ds = << >> THEN 0
    ELSE 10 * NumVal(SubSeq(ds, 1, Len(ds) - 1)) + DigitVal(ds[Len(ds)])

RECURSIVE DropTrailingZeros(_)
DropTrailingZeros(ds) ==
    IF ds # << >> /\ ds[Len(ds)] = "0"
    THEN DropTrailingZeros(SubSeq(ds, 1, Len(ds) - 1)) ELSE ds

\* float(s).  s is made of digits and '.' here (every caller passes a run of
\* [\d,.] with the commas removed).  float accepts d+, d+.d* and .d+ and
\* raises ValueError for anything else ('', '.', '1.2.3').  The value is the
\* decimal it denotes: integer part and fraction digits without trailing
\* zeros (exact for the short tokens of the model).
Float(s) ==
    LET dots == {i \in 1..Len(s) : s[i] = "."}
        dot  == IF dots = {} THEN Len(s) + 1 ELSE CHOOSE i \in dots : TRUE
        ok   == /\ Cardinality(dots) <= 1
                /\ \E i \in 1..Len(s) : s[i] \in Digit
                /\ \A i \in 1..Len(s) : s[i] \in Digit \cup {"."}
    IN  IF ok
        THEN [raised |-> FALSE,
              val |-> [ip |-> NumVal(SubSeq(s, 1, dot - 1)),
                       fp |-> DropTrailingZeros(SubSeq(s, dot + 1, Len(s)))]]
        ELSE [raised |-> TRUE, val |-> [ip |-> 0, fp |-> << >>]]

\* str.replace(',', '')
RemoveCommas(s) == SelectSeq(s, LAMBDA c : c # ",")

IsLeap(y) == (y % 4 = 0 /\ y % 100 # 0) \/ y % 400 = 0
DaysIn(y, m) ==
    CASE m \in {4, 6, 9, 11} -> 30
      [] m = 2 -> IF IsLeap(y) THEN 29 ELSE 28
      [] OTHER -> 31

\* datetime.strptime on six fields that already have the digit counts of the
\* format: the date-time, or ValueError when a field is out of range
Strptime(y, mo, d, h, mi, s) ==
    IF /\ y >= 1 /\ mo \in 1..12 /\ d \in 1..DaysIn(y, mo)
       /\ h \in 0..23 /\ mi \in 0..59 /\ s \in 0..59
    THEN [raised |-> FALSE,
          val |-> [year |-> y, month |-> mo, day |-> d,
                   hour |-> h, minute |-> mi, second |-> s]]
    ELSE [raised |-> TRUE,
          val |-> [year |-> 0, month |-> 0, day |-> 0,
                   hour |-> 0, minute |-> 0, second |-> 0]]

-----------------------------------------------------------------------------
(* Literal texts of the source *)

NoneText == <<"n", "o", "n", "e">>
NullText == <<"n", "u", "l", "l">>
EUR == <<"E", "U", "R">>
GBP == <<"G", "B", "P">>
USD == <<"U", "S", "D">>
Unknown == <<"U", "n", "k", "n", "o", "w", "n">>
EuroSign == <<"euro">>
PoundSign == <<"pound">>
DollarSign == <<"$">>
BadEuro == <<"acirc", "sbquo", "notsign">>
BadPound == <<"Acirc", "pound">>
QuotedEmpty == <<"\"", "\"">>
MalformedLog == <<"M", "A", "L", "F", "O", "R", "M", "E", "D", "_", "L", "O", "G">>
RawLog == <<"r", "a", "w", "_", "l", "o", "g">>

-----------------------------------------------------------------------------
(* BaseTransactionParser: the field extractors *)

\* IsoStamp taking a T between the date and the time as well
IsoStampT(g) ==
    <<Exactly(Digit, 4, g)>> \o Lit(<<"-">>, g) \o <<Exactly(Digit, 2, g)>>
    \o Lit(<<"-">>, g) \o <<Exactly(Digit, 2, g)>>
    \o <<Alt(<<<<" ">>, <<"T">>>>, g)>>
    \o <<Exactly(Digit, 2, g)>> \o Lit(<<":">>, g) \o <<Exactly(Digit, 2, g)>>
    \o Lit(<<":">>, g) \o <<Exactly(Digit, 2, g)>>

\* \d{4}-\d{2}-\d{2} \d{2}:\d{2}:\d{2}
IsoStamp(g) ==
    <<Exactly(Digit, 4, g)>> \o Lit(<<"-">>, g) \o <<Exactly(Digit, 2, g)>>
    \o Lit(<<"-">>, g) \o <<Exactly(Digit, 2, g)>> \o Lit(<<" ">>, g)
    \o <<Exactly(Digit, 2, g)>> \o Lit(<<":">>, g) \o <<Exactly(Digit, 2, g)>>
    \o Lit(<<":">>, g) \o <<Exactly(Digit, 2, g)>>
\* \d{2}/\d{2}/\d{4} \d{2}:\d{2}:\d{2}
DmyStamp(g) ==
    <<Exactly(Digit, 2, g)>> \o Lit(<<"/">>, g) \o <<Exactly(Digit, 2, g)>>
    \o Lit(<<"/">>, g) \o <<Exactly(Digit, 4, g)>> \o Lit(<<" ">>, g)
    \o <<Exactly(Digit, 2, g)>> \o Lit(<<":">>, g) \o <<Exactly(Digit, 2, g)>>
    \o Lit(<<":">>, g) \o <<Exactly(Digit, 2, g)>>

\* the length of a text in either layout
StampLen == 19
\* strptime raising ValueError for the newline $ let through (unconverted
\* data remains)
StrptimeRaised ==
    [raised |-> TRUE,
     val |-> [year |-> 0, month |-> 0, day |-> 0,
              hour |-> 0, minute |-> 0, second |-> 0]]

\* parse_datetime: the date-time, raised is TRUE when strptime raised
\* ValueError (caught in parse_datetime, which then prints and returns None)
DatetimeAttempt(date_str) ==
    IF (ReMatch(IsoStamp(0), date_str).ok \/ ReMatch(DmyStamp(0), date_str).ok)
       /\ Len(date_str) # StampLen
    THEN StrptimeRaised
    ELSE IF ReMatch(IsoStamp(0), date_str).ok
    THEN Strptime(NumVal(SubSeq(date_str, 1, 4)), NumVal(SubSeq(date_str, 6, 7)),
                  NumVal(SubSeq(date_str, 9, 10)), NumVal(SubSeq(date_str, 12, 13)),
                  NumVal(SubSeq(date_str, 15, 16)), NumVal(SubSeq(date_str, 18, 19)))
    ELSE IF ReMatch(DmyStamp(0), date_str).ok
    THEN Strptime(NumVal(SubSeq(date_str, 7, 10)), NumVal(SubSeq(date_str, 4, 5)),
                  NumVal(SubSeq(date_str, 1, 2)), NumVal(SubSeq(date_str, 12, 13)),
                  NumVal(SubSeq(date_str, 15, 16)), NumVal(SubSeq(date_str, 18, 19)))
    ELSE [raised |-> FALSE, val |-> << >>]

\* parse_datetime(date_str): val is the optional date-time returned, printed
\* the lines written to standard output
parse_datetime(date_str) ==
    IF date_str = << >> \/ LowerStr(date_str) = NoneText
    THEN [val |-> None, printed |-> << >>]
    ELSE LET a == DatetimeAttempt(date_str)
         IN  IF a.raised
             THEN [val |-> None,
                   printed |-> <<[kind |-> "datetime", row_id |-> 0, text |-> date_str]>>]
             ELSE IF a.val = << >>
             THEN [val |-> None, printed |-> << >>]
             ELSE [val |-> Some(a.val), printed |-> << >>]

\* NumberSearch for the expression (\d+\.?\d*), without the comma
NumberSearchDigitsOnly(s) ==
    LET starts == {i \in 1..Len(s) : s[i] \in Digit}
    IN  IF starts = {} THEN None
        ELSE LET i == CHOOSE k \in starts : \A m \in starts : k <= m
                 a == RunLen(s, i, Digit, Len(s))
                 b == IF i + a <= Len(s) /\ s[i + a] = "." THEN 1 ELSE 0
                 c == RunLen(s, i + a + b, Digit, Len(s))
             IN  Some(SubSeq(s, i, i + a + b + c - 1))

\* re.search(r'([\d,]+\.?\d*)', s).group(1), or None
NumberSearch(s) ==
    LET starts == {i \in 1..Len(s) : s[i] \in Digit \cup {","}}
    IN  IF starts = {} THEN None
        ELSE LET i == CHOOSE k \in starts : \A m \in starts : k <= m
                 a == RunLen(s, i, Digit \cup {","}, Len(s))
                 b == IF i + a <= Len(s) /\ s[i + a] = "." THEN 1 ELSE 0
                 c == RunLen(s, i + a + b, Digit, Len(s))
             IN  Some(SubSeq(s, i, i + a + b + c - 1))

\* AmountCurrency keeping the symbol found instead of its code
AmountCurrencySymbol(amount_str) ==
    IF Contains(amount_str, EuroSign) \/ Contains(amount_str, BadEuro) THEN EuroSign
    ELSE IF Contains(amount_str, PoundSign) \/ Contains(amount_str, BadPound) THEN PoundSign
    ELSE IF Contains(amount_str, DollarSign) THEN DollarSign
    ELSE GBP

\* the currency chosen by extract_amount once a number was found
AmountCurrency(amount_str) ==
    IF Contains(amount_str, EuroSign) \/ Contains(amount_str, BadEuro) THEN EUR
    ELSE IF Contains(amount_str, PoundSign) \/ Contains(amount_str, BadPound) THEN GBP
    ELSE IF Contains(amount_str, DollarSign) THEN USD
    ELSE GBP

\* extract_amount(amount_str): raised is TRUE when float() raised ValueError
extract_amount(amount_str) ==
    IF amount_str = << >>
    THEN [raised |-> FALSE, amount |-> None, currency |-> Some(GBP)]
    ELSE LET amount_clean ==
                 SelectSeq(amount_str,
                           LAMBDA c : c \in Digit \cup {".", ","} \cup CurrencyGlyph)
             number_match == NumberSearch(amount_clean)
         IN  IF ~IsNone(number_match)
             THEN LET f == Float(RemoveCommas(number_match[1]))
                  IN  IF f.raised
                      THEN [raised |-> TRUE, amount |-> None, currency |-> None]
                      ELSE [raised |-> FALSE, amount |-> Some(f.val),
                            currency |-> Some(AmountCurrency(amount_str))]
             ELSE [raised |-> FALSE, amount |-> None, currency |-> Some(GBP)]

\* get_currency_code looking the symbol up as it is, without strip()
get_currency_codeNoStrip(symbol) ==
    IF IsNone(symbol) \/ symbol = Some(<< >>) THEN GBP
    ELSE LET key == symbol[1]
         IN  CASE key \in {EuroSign, BadEuro, EUR} -> EUR
               [] key \in {PoundSign, BadPound, GBP} -> GBP
               [] key \in {DollarSign, USD} -> USD
               [] OTHER -> GBP

\* get_currency_code(symbol), symbol optional
get_currency_code(symbol) ==
    IF IsNone(symbol) \/ symbol = Some(<< >>) THEN GBP
    ELSE LET key == Strip(symbol[1])
         IN  CASE key \in {EuroSign, BadEuro, EUR} -> EUR
               [] key \in {PoundSign, BadPound, GBP} -> GBP
               [] key \in {DollarSign, USD} -> USD
               [] OTHER -> GBP

RECURSIVE CollapseFrom(_, _)
CollapseFrom(s, i) ==
    IF i > Len(s) THEN << >>
    ELSE IF s[i] \in Space
         THEN <<" ">> \o CollapseFrom(s, i + RunLen(s, i, Space, Len(s)))
         ELSE <<s[i]>> \o CollapseFrom(s, i + 1)
\* re.sub(r"\s+", " ", s)
CollapseSpace(s) == CollapseFrom(s, 1)

\* the replacements of clean_field, applied in the order of the table
FixUnicode(field) ==
    Replace(Replace(Replace(Replace(field, BadEuro, EuroSign),
                            BadPound, PoundSign),
                    <<"Acirc">>, << >>),
            <<"sbquo">>, << >>)

\* clean_field testing for none and null after the cleaning
clean_fieldNullAfterCleaning(field) ==
    LET cleaned == Strip(CollapseSpace(FixUnicode(field)))
    IN  IF cleaned = << >> \/ LowerStr(cleaned) \in {NoneText, NullText}
        THEN None
        ELSE Some(cleaned)

\* clean_field(field), field a text: the optional cleaned text
clean_field(field) ==
    IF field = << >> \/ LowerStr(field) \in {NoneText, NullText, << >>}
    THEN None
    ELSE Some(Strip(CollapseSpace(FixUnicode(field))))

\* clean_field called with an optional field: None is false in `not field`
clean_field_optional(field) ==
    IF IsNone(field) THEN None ELSE clean_field(field[1])

-----------------------------------------------------------------------------
(* TransactionCleaner.parse_transaction_line: the nine patterns *)

AmountChars == Digit \cup {",", "."}
WordDash == Word \cup {"-"}

\* ^(\d{4}-\d{2}-\d{2} \d{2}:\d{2}:\d{2})::(\w+)::([\w-]+)::([\d,.]+)::([^:]+)::(.+)$
pattern1 ==
    IsoStamp(1) \o Lit(<<":", ":">>, 0) \o <<Plus(Word, 2)>> \o Lit(<<":", ":">>, 0)
    \o <<Plus(WordDash, 3)>> \o Lit(<<":", ":">>, 0) \o <<Plus(AmountChars, 4)>>
    \o Lit(<<":", ":">>, 0) \o <<Plus(Not({":"}), 5)>> \o Lit(<<":", ":">>, 0)
    \o <<Plus(Dot, 6)>>

\* ^usr:(\w+)\|([\w-]+)\|([euro pound $]?[\d,.]+)\|([^|]+)\|(\d{4}-...)\|(.+)$
pattern2 ==
    Lit(<<"u", "s", "r", ":">>, 0) \o <<Plus(Word, 1)>> \o Lit(<<"|">>, 0)
    \o <<Plus(WordDash, 2)>> \o Lit(<<"|">>, 0)
    \o <<Optional(CurrencyGlyph, 3), Plus(AmountChars, 3)>> \o Lit(<<"|">>, 0)
    \o <<Plus(Not({"|"}), 4)>> \o Lit(<<"|">>, 0) \o IsoStamp(5) \o Lit(<<"|">>, 0)
    \o <<Plus(Dot, 6)>>

\* ^(\d{4}-...) >> \[(\w+)\] did ([\w-]+) - amt=([euro pound $]?[\d,.]+) - ([^/]+) // dev:(.+)$
pattern3 ==
    IsoStamp(1) \o Lit(<<" ", ">", ">", " ", "[">>, 0) \o <<Plus(Word, 2)>> \o Lit(<<"]", " ", "d", "i", "d", " ">>, 0)
    \o <<Plus(WordDash, 3)>> \o Lit(<<" ", "-", " ", "a", "m", "t", "=">>, 0)
    \o <<Optional(CurrencyGlyph, 4), Plus(AmountChars, 4)>> \o Lit(<<" ", "-", " ">>, 0)
    \o <<Plus(Not({"/"}), 5)>> \o Lit(<<" ", "/", "/", " ", "d", "e", "v", ":">>, 0) \o <<Plus(Dot, 6)>>

\* ^(\d{4}-...) \| user: (\w+) \| txn: ([\w-]+) of ([euro pound $]?[\d,.]+) from ([^|]+) \| device: (.+)$
pattern4 ==
    IsoStamp(1) \o Lit(<<" ", "|", " ", "u", "s", "e", "r", ":", " ">>, 0) \o <<Plus(Word, 2)>>
    \o Lit(<<" ", "|", " ", "t", "x", "n", ":", " ">>, 0) \o <<Plus(WordDash, 3)>> \o Lit(<<" ", "o", "f", " ">>, 0)
    \o <<Optional(CurrencyGlyph, 4), Plus(AmountChars, 4)>> \o Lit(<<" ", "f", "r", "o", "m", " ">>, 0)
    \o <<Plus(Not({"|"}), 5)>> \o Lit(<<" ", "|", " ", "d", "e", "v", "i", "c", "e", ":", " ">>, 0) \o <<Plus(Dot, 6)>>

\* ^(\d{4}-...) - user=(\w+) - action=([\w-]+) ([euro pound $]?[\d,.]+) - ATM: ([^-]+) - device=(.+)$
pattern5 ==
    IsoStamp(1) \o Lit(<<" ", "-", " ", "u", "s", "e", "r", "=">>, 0) \o <<Plus(Word, 2)>>
    \o Lit(<<" ", "-", " ", "a", "c", "t", "i", "o", "n", "=">>, 0) \o <<Plus(WordDash, 3)>> \o Lit(<<" ">>, 0)
    \o <<Optional(CurrencyGlyph, 4), Plus(AmountChars, 4)>> \o Lit(<<" ", "-", " ", "A", "T", "M", ":", " ">>, 0)
    \o <<Plus(Not({"-"}), 5)>> \o Lit(<<" ", "-", " ", "d", "e", "v", "i", "c", "e", "=">>, 0) \o <<Plus(Dot, 6)>>

\* ^(\d{2}/\d{2}/\d{4} ...) ::: (\w+) \*\*\* ([\w-]+) ::: amt:([euro pound $]?[\d,.]+) @ ([^<]+) <([^>]+)>$
pattern6 ==
    DmyStamp(1) \o Lit(<<" ", ":", ":", ":", " ">>, 0) \o <<Plus(Word, 2)>> \o Lit(<<" ", "*", "*", "*", " ">>, 0)
    \o <<Plus(WordDash, 3)>> \o Lit(<<" ", ":", ":", ":", " ", "a", "m", "t", ":">>, 0)
    \o <<Optional(CurrencyGlyph, 4), Plus(AmountChars, 4)>> \o Lit(<<" ", "@", " ">>, 0)
    \o <<Plus(Not({"<"}), 5)>> \o Lit(<<" ", "<">>, 0) \o <<Plus(Not({">"}), 6)>>
    \o Lit(<<">">>, 0)

\* ^(\w+) (\d{4}-...) ([\w-]+) ([\d,.]+) (\S+) (.+)$
pattern7 ==
    <<Plus(Word, 1)>> \o Lit(<<" ">>, 0) \o IsoStamp(2) \o Lit(<<" ">>, 0)
    \o <<Plus(WordDash, 3)>> \o Lit(<<" ">>, 0) \o <<Plus(AmountChars, 4)>>
    \o Lit(<<" ">>, 0) \o <<Plus(Not(Space), 5)>> \o Lit(<<" ">>, 0) \o <<Plus(Dot, 6)>>

\* ^(\d{2}/\d{2}/\d{4} ...) ::: (\w+) \*\*\* ([\w-]+) ::: amt:([\d,.]+)([euro pound $]) @ ([^<]+) <([^>]+)>$
pattern8 ==
    DmyStamp(1) \o Lit(<<" ", ":", ":", ":", " ">>, 0) \o <<Plus(Word, 2)>> \o Lit(<<" ", "*", "*", "*", " ">>, 0)
    \o <<Plus(WordDash, 3)>> \o Lit(<<" ", ":", ":", ":", " ", "a", "m", "t", ":">>, 0)
    \o <<Plus(AmountChars, 4), Exactly(CurrencyGlyph, 1, 5)>> \o Lit(<<" ", "@", " ">>, 0)
    \o <<Plus(Not({"<"}), 6)>> \o Lit(<<" ", "<">>, 0) \o <<Plus(Not({">"}), 7)>>
    \o Lit(<<">">>, 0)

\* as pattern8 with ([bad euro]|euro|pound|[bad pound]|\$) for the symbol
pattern9 ==
    DmyStamp(1) \o Lit(<<" ", ":", ":", ":", " ">>, 0) \o <<Plus(Word, 2)>> \o Lit(<<" ", "*", "*", "*", " ">>, 0)
    \o <<Plus(WordDash, 3)>> \o Lit(<<" ", ":", ":", ":", " ", "a", "m", "t", ":">>, 0)
    \o <<Plus(AmountChars, 4),
         Alt(<<BadEuro, EuroSign, PoundSign, BadPound, DollarSign>>, 5)>>
    \o Lit(<<" ", "@", " ">>, 0)
    \o <<Plus(Not({"<"}), 6)>> \o Lit(<<" ", "<">>, 0) \o <<Plus(Not({">"}), 7)>>
    \o Lit(<<">">>, 0)

NumPatterns == 9
Pattern(g) ==
    CASE g = 1 -> pattern1 [] g = 2 -> pattern2 [] g = 3 -> pattern3
      [] g = 4 -> pattern4 [] g = 5 -> pattern5 [] g = 6 -> pattern6
      [] g = 7 -> pattern7 [] g = 8 -> pattern8 [] g = 9 -> pattern9

-----------------------------------------------------------------------------
(* parse_transaction_line: the field bindings of each pattern.  The result *)
(* says whether the extraction raised, what the extractors printed before  *)
(* that, and the fields of the record.                                     *)

NoFields ==
    [datetime |-> None, user_id |-> None, transaction_type |-> None,
     amount |-> None, currency |-> None, location |-> None, device |-> None]
Raised(printed) == [raised |-> TRUE, printed |-> printed, fields |-> NoFields]
Bound(printed, fields) == [raised |-> FALSE, printed |-> printed, fields |-> fields]

\* str.replace('-', '_')
DashToUnderscore(s) == [i \in 1..Len(s) |-> IF s[i] = "-" THEN "_" ELSE s[i]]

extract1(c) ==
    LET dt == parse_datetime(c[1])
        a  == extract_amount(c[4])
    IN  IF a.raised THEN Raised(dt.printed)
        ELSE Bound(dt.printed,
                   [datetime |-> dt.val, user_id |-> Some(c[2]),
                    transaction_type |-> Some(c[3]),
                    amount |-> a.amount, currency |-> a.currency,
                    location |-> clean_field(c[5]), device |-> clean_field(c[6])])

extract2(c) ==
    LET amount_info == extract_amount(c[3])
        dt == parse_datetime(c[5])
    IN  IF amount_info.raised THEN Raised(<< >>)
        ELSE Bound(dt.printed,
                   [user_id |-> Some(c[1]), transaction_type |-> Some(c[2]),
                    amount |-> amount_info.amount, currency |-> amount_info.currency,
                    location |-> clean_field(c[4]), datetime |-> dt.val,
                    device |-> clean_field(c[6])])

\* extract3 leaving the dashes of the transaction type
extract3KeepDash(c) ==
    LET amount_info == extract_amount(c[4])
        dt == parse_datetime(c[1])
    IN  IF amount_info.raised THEN Raised(<< >>)
        ELSE Bound(dt.printed,
                   [datetime |-> dt.val, user_id |-> Some(c[2]),
                    transaction_type |-> Some(c[3]),
                    amount |-> amount_info.amount, currency |-> amount_info.currency,
                    location |-> clean_field(c[5]), device |-> clean_field(c[6])])

extract3(c) ==
    LET amount_info == extract_amount(c[4])
        dt == parse_datetime(c[1])
    IN  IF amount_info.raised THEN Raised(<< >>)
        ELSE Bound(dt.printed,
                   [datetime |-> dt.val, user_id |-> Some(c[2]),
                    transaction_type |-> Some(DashToUnderscore(c[3])),
                    amount |-> amount_info.amount, currency |-> amount_info.currency,
                    location |-> clean_field(c[5]), device |-> clean_field(c[6])])

\* patterns 4 and 5 bind their groups alike
extract4(c) ==
    LET amount_info == extract_amount(c[4])
        dt == parse_datetime(c[1])
    IN  IF amount_info.raised THEN Raised(<< >>)
        ELSE Bound(dt.printed,
                   [datetime |-> dt.val, user_id |-> Some(c[2]),
                    transaction_type |-> Some(c[3]),
                    amount |-> amount_info.amount, currency |-> amount_info.currency,
                    location |-> clean_field(c[5]), device |-> clean_field(c[6])])

extract5(c) ==
    LET amount_info == extract_amount(c[4])
        dt == parse_datetime(c[1])
    IN  IF amount_info.raised THEN Raised(<< >>)
        ELSE Bound(dt.printed,
                   [datetime |-> dt.val, user_id |-> Some(c[2]),
                    transaction_type |-> Some(c[3]),
                    amount |-> amount_info.amount, currency |-> amount_info.currency,
                    location |-> clean_field(c[5]), device |-> clean_field(c[6])])

extract6(c) ==
    LET amount_info == extract_amount(c[4])
        dt == parse_datetime(c[1])
    IN  IF amount_info.raised THEN Raised(<< >>)
        ELSE Bound(dt.printed,
                   [datetime |-> dt.val, user_id |-> Some(c[2]),
                    transaction_type |-> Some(LowerStr(c[3])),
                    amount |-> amount_info.amount, currency |-> amount_info.currency,
                    location |-> clean_field(c[5]), device |-> clean_field(c[6])])

\* extract7 leaving the currency unset
extract7NoCurrency(c) ==
    LET dt == parse_datetime(c[2])
        amount == Float(RemoveCommas(c[4]))
    IN  IF amount.raised THEN Raised(dt.printed)
        ELSE Bound(dt.printed,
                   [user_id |-> Some(c[1]), datetime |-> dt.val,
                    transaction_type |-> Some(c[3]),
                    amount |-> Some(amount.val), currency |-> None,
                    location |-> clean_field(c[5]), device |-> clean_field(c[6])])

extract7(c) ==
    LET dt == parse_datetime(c[2])
        amount == Float(RemoveCommas(c[4]))
    IN  IF amount.raised THEN Raised(dt.printed)
        ELSE Bound(dt.printed,
                   [user_id |-> Some(c[1]), datetime |-> dt.val,
                    transaction_type |-> Some(c[3]),
                    amount |-> Some(amount.val), currency |-> Some(GBP),
                    location |-> clean_field(c[5]), device |-> clean_field(c[6])])

extract8(c) ==
    LET amount == Float(RemoveCommas(c[4]))
        currency_symbol == c[5]
        currency == get_currency_code(Some(currency_symbol))
        dt == parse_datetime(c[1])
    IN  IF amount.raised THEN Raised(<< >>)
        ELSE Bound(dt.printed,
                   [datetime |-> dt.val, user_id |-> Some(c[2]),
                    transaction_type |-> Some(LowerStr(c[3])),
                    amount |-> Some(amount.val), currency |-> Some(currency),
                    location |-> clean_field(c[6]), device |-> clean_field(c[7])])

\* extract9 without the lower() of the transaction type
extract9KeepCase(c) ==
    LET amount == Float(RemoveCommas(c[4]))
        currency_symbol == c[5]
        cleaned_currency == clean_field(currency_symbol)
        currency == get_currency_code(cleaned_currency)
        dt == parse_datetime(c[1])
    IN  IF amount.raised THEN Raised(<< >>)
        ELSE Bound(dt.printed,
                   [datetime |-> dt.val, user_id |-> Some(c[2]),
                    transaction_type |-> Some(c[3]),
                    amount |-> Some(amount.val), currency |-> Some(currency),
                    location |-> clean_field(c[6]), device |-> clean_field(c[7])])

extract9(c) ==
    LET amount == Float(RemoveCommas(c[4]))
        currency_symbol == c[5]
        cleaned_currency == clean_field(currency_symbol)
        currency == get_currency_code(cleaned_currency)
        dt == parse_datetime(c[1])
    IN  IF amount.raised THEN Raised(<< >>)
        ELSE Bound(dt.printed,
                   [datetime |-> dt.val, user_id |-> Some(c[2]),
                    transaction_type |-> Some(LowerStr(c[3])),
                    amount |-> Some(amount.val), currency |-> Some(currency),
                    location |-> clean_field(c[6]), device |-> clean_field(c[7])])

Extract(g, c) ==
    CASE g = 1 -> extract1(c) [] g = 2 -> extract2(c) [] g = 3 -> extract3(c)
      [] g = 4 -> extract4(c) [] g = 5 -> extract5(c) [] g = 6 -> extract6(c)
      [] g = 7 -> extract7(c) [] g = 8 -> extract8(c) [] g = 9 -> extract9(c)

-----------------------------------------------------------------------------
(* parse_transaction_line: the cascade *)

\* MakeRecord keeping the line cut as the diagnostics cut it
MakeRecordTruncatedLog(row_id, line, f) ==
    [row_id |-> row_id,
     original_log |-> SubSeq(line, 1, IF Len(line) < 50 THEN Len(line) ELSE 50),
     datetime |-> f.datetime,
     user_id |-> f.user_id, transaction_type |-> f.transaction_type,
     amount |-> f.amount, currency |-> f.currency,
     location |-> f.location, device |-> f.device]

\* the record initialised at the top of parse_transaction_line, updated by
\* the matched branch
MakeRecord(row_id, line, f) ==
    [row_id |-> row_id, original_log |-> line, datetime |-> f.datetime,
     user_id |-> f.user_id, transaction_type |-> f.transaction_type,
     amount |-> f.amount, currency |-> f.currency,
     location |-> f.location, device |-> f.device]

\* line[:n]
Prefix(line, n) == SubSeq(line, 1, IF Len(line) < n THEN Len(line) ELSE n)

ErrorPrefix == 50
NoMatchPrefix == 100

\* The outcome of parse_transaction_line: the optional record returned, the
\* pattern that matched (0: none), the patterns matched against the line in
\* the order they were tried, whether the extraction raised, and the lines
\* printed.
Outcome(record, grammar, tried, raised, printed) ==
    [record |-> record, grammar |-> grammar, tried |-> tried,
     raised |-> raised, printed |-> printed]

\* no pattern matched: the diagnostic after the try block
NoPatternMatched(line, row_id, tried) ==
    Outcome(None, 0, tried, FALSE,
            <<[kind |-> "nomatch", row_id |-> row_id,
               text |-> Prefix(line, NoMatchPrefix)]>>)

\* Extracted with an except clause that returns None without printing
ExtractedSilently(line, row_id, g, tried, e) ==
    IF e.raised
    THEN Outcome(None, g, Append(tried, g), TRUE, e.printed)
    ELSE Outcome(Some(MakeRecord(row_id, line, e.fields)),
                 g, Append(tried, g), FALSE, e.printed)

\* the end of a branch of the if-chain, e the result of its extraction: the
\* record is returned, or the extraction raised and the except clause prints
\* and returns None
Extracted(line, row_id, g, tried, e) ==
    IF e.raised
    THEN Outcome(None, g, Append(tried, g), TRUE,
                 e.printed \o
                 <<[kind |-> "error", row_id |-> row_id,
                    text |-> Prefix(line, ErrorPrefix)]>>)
    ELSE Outcome(Some(MakeRecord(row_id, line, e.fields)),
                 g, Append(tried, g), FALSE, e.printed)

\* pattern g matched with the groups c
PatternMatched(line, row_id, g, tried, c) ==
    Extracted(line, row_id, g, tried, Extract(g, c))

\* Cascade without the return of a matched pattern: the last match wins
RECURSIVE CascadeLastMatch(_, _, _, _)
CascadeLastMatch(line, row_id, g, tried) ==
    IF g > NumPatterns THEN NoPatternMatched(line, row_id, tried)
    ELSE LET match == ReMatch(Pattern(g), line)
             later == CascadeLastMatch(line, row_id, g + 1, Append(tried, g))
         IN  IF match.ok /\ later.grammar = 0
             THEN PatternMatched(line, row_id, g, later.tried, match.caps)
             ELSE later

\* Cascade with an except clause that goes on to the next pattern
RECURSIVE CascadeRetryNext(_, _, _, _)
CascadeRetryNext(line, row_id, g, tried) ==
    IF g > NumPatterns THEN NoPatternMatched(line, row_id, tried)
    ELSE LET match == ReMatch(Pattern(g), line)
             here == PatternMatched(line, row_id, g, tried, match.caps)
             later == CascadeRetryNext(line, row_id, g + 1, Append(tried, g))
         IN  IF match.ok /\ ~here.raised THEN here
             ELSE IF match.ok /\ later.grammar = 0
             THEN [here EXCEPT !.tried = later.tried]
             ELSE later

\* the if-chain of the try block, from pattern g on
RECURSIVE Cascade(_, _, _, _)
Cascade(line, row_id, g, tried) ==
    IF g > NumPatterns THEN NoPatternMatched(line, row_id, tried)
    ELSE LET match == ReMatch(Pattern(g), line)
         IN  IF match.ok
             THEN PatternMatched(line, row_id, g, tried, match.caps)
             ELSE Cascade(line, row_id, g + 1, Append(tried, g))

parse_transaction_line(line, row_id) ==
    IF line = << >> \/ line \in {QuotedEmpty, MalformedLog}
    THEN Outcome(None, 0, << >>, FALSE, << >>)
    ELSE Cascade(line, row_id, 1, << >>)

-----------------------------------------------------------------------------
(* TransactionCleaner.clean_transaction_logs *)

\* KeepLine comparing the sentinels without regard to case
KeepLineIgnoreCase(s) ==
    /\ s # << >>
    /\ LowerStr(s) \notin {QuotedEmpty, LowerStr(MalformedLog), RawLog}
    /\ ~StartsWith(LowerStr(s), RawLog)

\* the condition of the list comprehension, on the stripped line
KeepLine(s) ==
    /\ s # << >>
    /\ s \notin {QuotedEmpty, MalformedLog, RawLog}
    /\ ~StartsWith(s, RawLog)

\* FilterLines without MALFORMED_LOG among the sentinels
FilterLinesKeepMalformed(raw_content) ==
    LET lines == SplitLines(raw_content)
        stripped == [i \in 1..Len(lines) |-> Strip(lines[i])]
    IN  SelectSeq(stripped,
                  LAMBDA s : /\ s # << >>
                             /\ s \notin {QuotedEmpty, RawLog}
                             /\ ~StartsWith(s, RawLog))

\* valid_lines
FilterLines(raw_content) ==
    LET lines == SplitLines(raw_content)
        stripped == [i \in 1..Len(lines) |-> Strip(lines[i])]
    IN  SelectSeq(stripped, KeepLine)

\* a Python value used as a condition: None and '' are false
Truthy(o) == ~IsNone(o) /\ o[1] # << >>

Columns ==
    <<"row_id", "original_log", "datetime", "user_id", "transaction_type",
      "amount", "currency", "location", "device">>

RECURSIVE LexLess(_, _)
LexLess(a, b) ==
    /\ a # << >>
    /\ \/ Head(a) < Head(b)
       \/ Head(a) = Head(b) /\ LexLess(Tail(a), Tail(b))

\* pd.to_datetime(errors='coerce') of one cell holding None or a datetime:
\* the nanosecond Timestamp, NaT outside 1677-09-21 00:12:43.145 ..
\* 2262-04-11 23:47:16.854
to_datetime(cell) ==
    IF IsNone(cell) THEN None
    ELSE LET d == cell[1]
             t == <<d.year, d.month, d.day, d.hour, d.minute, d.second>>
         IN  IF \/ LexLess(t, <<1677, 9, 21, 0, 12, 44>>)
                \/ LexLess(<<2262, 4, 11, 23, 47, 16>>, t)
             THEN None ELSE cell

\* Series.fillna(value) of one cell
fillna(cell, value) == IF IsNone(cell) THEN Some(value) ELSE cell

\* PostProcessRow without the fillna of device
PostProcessRowDeviceNotFilled(r) ==
    [r EXCEPT !.datetime = to_datetime(@),
              !.location = fillna(@, Unknown),
              !.currency = fillna(@, USD)]

\* the post-processing of one row (pd.to_numeric leaves a float or a missing
\* value as it is, astype(int) an int)
PostProcessRow(r) ==
    [r EXCEPT !.datetime = to_datetime(@),
              !.location = fillna(@, Unknown),
              !.device = fillna(@, Unknown),
              !.currency = fillna(@, USD)]

\* pd.DataFrame(cleaned_records) and the post-processing of a non-empty frame;
\* the frame of an empty list has no columns
BuildFrame(records) ==
    IF records = << >>
    THEN [columns |-> << >>, rows |-> << >>]
    ELSE [columns |-> Columns,
          rows |-> [i \in 1..Len(records) |-> PostProcessRow(records[i])]]

-----------------------------------------------------------------------------
(* Input: sample raw lines, one or more per pattern and per way a line is  *)
(* filtered out or dropped, and the blobs made of them                     *)

LineDoubleColon ==
    <<"2", "0", "2", "3", "-", "0", "5", "-", "1", "4", " ", "1", "4", ":",
      "0", "5", ":", "3", "1", ":", ":", "u", "s", "e", "r", "1", "2", "3",
      ":", ":", "t", "o", "p", "-", "u", "p", ":", ":", "5", "0", "0", ":",
      ":", "A", "T", "M", " ", "L", "o", "c", "a", "t", "i", "o", "n", ":",
      ":", "D", "e", "v", "i", "c", "e">>
LineDoubleColonComma ==
    <<"2", "0", "2", "3", "-", "0", "5", "-", "1", "4", " ", "1", "4", ":",
      "0", "5", ":", "3", "1", ":", ":", "u", "1", ":", ":", "c", "a", "s",
      "h", "o", "u", "t", ":", ":", ",", ":", ":", "L", "e", "e", "d", "s",
      ":", ":", "D">>
LineDoubleColonDots ==
    <<"2", "0", "2", "3", "-", "1", "3", "-", "1", "4", " ", "1", "4", ":",
      "0", "5", ":", "3", "1", ":", ":", "u", "1", ":", ":", "c", "a", "s",
      "h", "o", "u", "t", ":", ":", ".", ".", ":", ":", "L", "e", "e", "d",
      "s", ":", ":", "n", "o", "n", "e">>
LineDoubleColonNull ==
    <<"2", "0", "2", "3", "-", "0", "5", "-", "1", "4", " ", "1", "4", ":",
      "0", "5", ":", "3", "1", ":", ":", "u", "1", ":", ":", "c", "a", "s",
      "h", "o", "u", "t", ":", ":", "5", ":", ":", "N", "U", "L", "L", ":",
      ":", "D">>
LinePipe ==
    <<"u", "s", "r", ":", "u", "1", "|", "t", "o", "p", "-", "u", "p", "|",
      "pound", "5", "0", "0", "|", "L", "e", "e", "d", "s", "|", "2", "0",
      "2", "3", "-", "0", "5", "-", "1", "4", " ", "1", "4", ":", "0", "5",
      ":", "3", "1", "|", "D">>
LineArrow ==
    <<"2", "0", "2", "3", "-", "0", "5", "-", "1", "4", " ", "1", "4", ":",
      "0", "5", ":", "3", "1", " ", ">", ">", " ", "[", "u", "1", "]", " ",
      "d", "i", "d", " ", "t", "o", "p", "-", "u", "p", " ", "-", " ", "a",
      "m", "t", "=", "euro", "1", ",", "2", "3", "4", ".", "5", "0", " ",
      "-", " ", "L", "e", "e", "d", "s", " ", "/", "/", " ", "d", "e", "v",
      ":", "D">>
LineLabels ==
    <<"2", "0", "2", "3", "-", "0", "5", "-", "1", "4", " ", "1", "4", ":",
      "0", "5", ":", "3", "1", " ", "|", " ", "u", "s", "e", "r", ":", " ",
      "u", "1", " ", "|", " ", "t", "x", "n", ":", " ", "d", "e", "b", "i",
      "t", " ", "o", "f", " ", "$", "5", " ", "f", "r", "o", "m", " ", "L",
      "e", "e", "d", "s", " ", "|", " ", "d", "e", "v", "i", "c", "e", ":",
      " ", "D">>
LineDash ==
    <<"2", "0", "2", "3", "-", "0", "5", "-", "1", "4", " ", "1", "4", ":",
      "0", "5", ":", "3", "1", " ", "-", " ", "u", "s", "e", "r", "=", "u",
      "1", " ", "-", " ", "a", "c", "t", "i", "o", "n", "=", "d", "e", "b",
      "i", "t", " ", "7", ".", "5", " ", "-", " ", "A", "T", "M", ":", " ",
      "L", "e", "e", "d", "s", " ", "-", " ", "d", "e", "v", "i", "c", "e",
      "=", "D">>
LineDashNoDevice ==
    <<"2", "0", "2", "3", "-", "0", "5", "-", "1", "4", " ", "1", "4", ":",
      "0", "5", ":", "3", "1", " ", "-", " ", "u", "s", "e", "r", "=", "u",
      "1", " ", "-", " ", "a", "c", "t", "i", "o", "n", "=", "d", "e", "b",
      "i", "t", " ", "7", ".", "5", " ", "-", " ", "A", "T", "M", ":", " ",
      "L", "e", "e", "d", "s", " ", "-", " ", "d", "e", "v", "i", "c", "e",
      "=", "N", "o", "n", "e">>
LineTriplePrefix ==
    <<"1", "4", "/", "0", "5", "/", "2", "0", "2", "3", " ", "1", "4", ":",
      "0", "5", ":", "3", "1", " ", ":", ":", ":", " ", "u", "1", " ", "*",
      "*", "*", " ", "T", "O", "P", "-", "U", "P", " ", ":", ":", ":", " ",
      "a", "m", "t", ":", "$", "5", "0", "0", " ", "@", " ", "L", "e", "e",
      "d", "s", " ", "<", "D", ">">>
LineSimple ==
    <<" ", " ", "u", "1", " ", "2", "0", "2", "3", "-", "0", "5", "-", "1",
      "4", " ", "1", "4", ":", "0", "5", ":", "3", "1", " ", "t", "o", "p",
      "-", "u", "p", " ", "1", ",", "5", "0", "0", " ", "L", "e", "e", "d",
      "s", " ", "D", "\t">>
LineSimpleBadAmount ==
    <<"u", "1", " ", "2", "0", "2", "3", "-", "0", "5", "-", "1", "4", " ",
      "1", "4", ":", "0", "5", ":", "3", "1", " ", "t", "o", "p", "-", "u",
      "p", " ", "1", ".", "2", ".", "3", " ", "L", "e", "e", "d", "s", " ",
      "D">>
LineTripleSuffix ==
    <<"1", "4", "/", "0", "5", "/", "2", "0", "2", "3", " ", "1", "4", ":",
      "0", "5", ":", "3", "1", " ", ":", ":", ":", " ", "u", "1", " ", "*",
      "*", "*", " ", "T", "O", "P", "-", "U", "P", " ", ":", ":", ":", " ",
      "a", "m", "t", ":", "5", "0", "0", "euro", " ", "@", " ", "L", "e",
      "e", "d", "s", " ", "<", "D", ">">>
LineTripleSuffixBad ==
    <<"1", "4", "/", "0", "5", "/", "2", "0", "2", "3", " ", "1", "4", ":",
      "0", "5", ":", "3", "1", " ", ":", ":", ":", " ", "u", "1", " ", "*",
      "*", "*", " ", "T", "O", "P", "-", "U", "P", " ", ":", ":", ":", " ",
      "a", "m", "t", ":", "1", ".", ".", "5", "$", " ", "@", " ", "L", "e",
      "e", "d", "s", " ", "<", "D", ">">>
LineTripleMojibake ==
    <<"0", "4", "/", "0", "7", "/", "2", "0", "2", "5", " ", "0", "0", ":",
      "4", "1", ":", "5", "1", " ", ":", ":", ":", " ", "u", "s", "e", "r",
      "1", "0", "4", "4", " ", "*", "*", "*", " ", "R", "E", "F", "U", "N",
      "D", " ", ":", ":", ":", " ", "a", "m", "t", ":", "3", "4", "9", "1",
      ".", "9", "4", "acirc", "sbquo", "notsign", " ", "@", " ", "M", "a",
      "n", "c", "h", "e", "s", "t", "e", "r", " ", "<", "H", "u", "a", "w",
      "e", "i", " ", "P", "3", "0", ">">>
LineUnmatched ==
    <<"2", "0", "2", "3", "-", "0", "5", "-", "1", "4", " ", "u", "1", " ",
      "t", "o", "p", "-", "u", "p">>
LineMalformed ==
    <<"M", "A", "L", "F", "O", "R", "M", "E", "D", "_", "L", "O", "G">>
LineMalformedLower ==
    <<" ", "m", "a", "l", "f", "o", "r", "m", "e", "d", "_", "l", "o", "g">>
LineQuotedEmpty ==
    <<"\"", "\"">>
LineHeader ==
    <<"r", "a", "w", "_", "l", "o", "g">>
LineHeaderMore ==
    <<"r", "a", "w", "_", "l", "o", "g", ",", "l", "a", "b", "e", "l">>
LineBlank ==
    <<" ", "\t">>

RawLinePool ==
    {LineDoubleColon,
     LineDoubleColonComma,
     LineDoubleColonDots,
     LineDoubleColonNull,
     LinePipe,
     LineArrow,
     LineLabels,
     LineDash,
     LineDashNoDevice,
     LineTriplePrefix,
     LineSimple,
     LineSimpleBadAmount,
     LineTripleSuffix,
     LineTripleSuffixBad,
     LineTripleMojibake,
     LineUnmatched,
     LineMalformed,
     LineMalformedLower,
     LineQuotedEmpty,
     LineHeader,
     LineHeaderMore,
     LineBlank}

MaxLines == 3

RECURSIVE Join(_)
\* '\n'.join(lines)
Join(lines) ==
    IF lines = << >> THEN << >>
    ELSE IF Len(lines) = 1 THEN lines[1]
    ELSE lines[1] \o <<"\n">> \o Join(Tail(lines))

\* the lines the blobs of several lines are made of
BatchPool ==
    {LineDoubleColonDots, LineSimple, LineTripleSuffixBad,
     LineMalformed, LineMalformedLower, LineHeaderMore}

OneLineBlobs == RawLinePool
Blobs ==
    {<< >>} \cup OneLineBlobs
    \cup {Join(ls) : ls \in UNION {[1..n -> BatchPool] : n \in 2..MaxLines}}

PathName == <<"l", "o", "g", "s", ".", "c", "s", "v">>

\* the calls made: (csv_file_path, raw_data, content of the file)
Inputs ==
    {<<None, None, << >> >>}
    \cup {<<None, Some(b), << >> >> : b \in Blobs}
    \cup {<<Some(PathName), None, b>> : b \in {<< >>} \cup OneLineBlobs}
    \cup {<<Some(PathName), Some(b), b>> : b \in OneLineBlobs}
    \cup {<<Some(<< >>), Some(b), << >> >> : b \in OneLineBlobs}

-----------------------------------------------------------------------------
(* The driver *)

Init ==
    /\ pc = "idle"
    /\ csv_file_path = None
    /\ raw_data = None
    /\ file_text = << >>
    /\ valid_lines = << >>
    /\ idx = 0
    /\ cleaned_records = << >>
    /\ trace = << >>
    /\ stdout = << >>
    /\ df = None
    /\ fn_arg = << >>
    /\ fn_out = None

\* Call taking a missing input for an empty text
CallMissingInputAsEmptyText ==
    /\ pc = "idle"
    /\ \E in \in Inputs :
        /\ csv_file_path' = in[1]
        /\ raw_data' = in[2]
        /\ file_text' = in[3]
        /\ IF Truthy(in[1])
           THEN pc' = "loop" /\ valid_lines' = FilterLines(in[3])
           ELSE IF Truthy(in[2])
           THEN pc' = "loop" /\ valid_lines' = FilterLines(in[2][1])
           ELSE pc' = "loop" /\ valid_lines' = << >>
    /\ UNCHANGED <<idx, cleaned_records, trace, stdout, df>>
    /\ UNCHANGED fn_vars

\* clean_transaction_logs is called: the choice of the input and the filter
Call ==
    /\ pc = "idle"
    /\ \E in \in Inputs :
        /\ csv_file_path' = in[1]
        /\ raw_data' = in[2]
        /\ file_text' = in[3]
        /\ IF Truthy(in[1])
           THEN pc' = "loop" /\ valid_lines' = FilterLines(in[3])
           ELSE IF Truthy(in[2])
           THEN pc' = "loop" /\ valid_lines' = FilterLines(in[2][1])
           ELSE pc' = "raised" /\ valid_lines' = << >>
    /\ UNCHANGED <<idx, cleaned_records, trace, stdout, df>>
    /\ UNCHANGED fn_vars

\* ParseLine numbering a line by the records kept so far
ParseLineRecordOrdinal ==
    /\ pc = "loop"
    /\ idx < Len(valid_lines)
    /\ \E r \in {parse_transaction_line(valid_lines[idx + 1], Len(cleaned_records) + 1)} :
           /\ cleaned_records' =
                 IF IsNone(r.record) THEN cleaned_records
                 ELSE Append(cleaned_records, r.record[1])
           /\ trace' = Append(trace, [line |-> valid_lines[idx + 1],
                                      row_id |-> idx + 1,
                                      grammar |-> r.grammar, tried |-> r.tried,
                                      raised |-> r.raised,
                                      produced |-> ~IsNone(r.record)])
           /\ stdout' = stdout \o r.printed
    /\ idx' = idx + 1
    /\ UNCHANGED <<pc, csv_file_path, raw_data, file_text, valid_lines, df>>
    /\ UNCHANGED fn_vars

\* ParseLine parsing a dropped line again instead of moving on
ParseLineRetryDropped ==
    /\ pc = "loop"
    /\ idx < Len(valid_lines)
    /\ \E r \in {parse_transaction_line(valid_lines[idx + 1], idx + 1)} :
           /\ cleaned_records' =
                 IF IsNone(r.record) THEN cleaned_records
                 ELSE Append(cleaned_records, r.record[1])
           /\ trace' = Append(trace, [line |-> valid_lines[idx + 1],
                                      row_id |-> idx + 1,
                                      grammar |-> r.grammar, tried |-> r.tried,
                                      raised |-> r.raised,
                                      produced |-> ~IsNone(r.record)])
           /\ stdout' = stdout \o r.printed
           /\ idx' = IF IsNone(r.record) THEN idx ELSE idx + 1
    /\ UNCHANGED <<pc, csv_file_path, raw_data, file_text, valid_lines, df>>
    /\ UNCHANGED fn_vars

\* one iteration of the loop over valid_lines
ParseLine ==
    /\ pc = "loop"
    /\ idx < Len(valid_lines)
    /\ \E r \in {parse_transaction_line(valid_lines[idx + 1], idx + 1)} :
           /\ cleaned_records' =
                 IF IsNone(r.record) THEN cleaned_records
                 ELSE Append(cleaned_records, r.record[1])
           /\ trace' = Append(trace, [line |-> valid_lines[idx + 1],
                                      row_id |-> idx + 1,
                                      grammar |-> r.grammar, tried |-> r.tried,
                                      raised |-> r.raised,
                                      produced |-> ~IsNone(r.record)])
           /\ stdout' = stdout \o r.printed
    /\ idx' = idx + 1
    /\ UNCHANGED <<pc, csv_file_path, raw_data, file_text, valid_lines, df>>
    /\ UNCHANGED fn_vars

\* the loop is over: the frame is built, post-processed and returned
Return ==
    /\ pc = "loop"
    /\ idx = Len(valid_lines)
    /\ df' = Some(BuildFrame(cleaned_records))
    /\ pc' = "returned"
    /\ UNCHANGED <<csv_file_path, raw_data, file_text, valid_lines, idx,
                   cleaned_records, trace, stdout>>
    /\ UNCHANGED fn_vars

\* the call is over (returned or raised ValueError); the cleaner keeps no
\* state and is ready for the next call
Reset ==
    /\ pc \in {"returned", "raised"}
    /\ pc' = "idle"
    /\ csv_file_path' = None
    /\ raw_data' = None
    /\ file_text' = << >>
    /\ valid_lines' = << >>
    /\ idx' = 0
    /\ cleaned_records' = << >>
    /\ trace' = << >>
    /\ stdout' = << >>
    /\ df' = None
    /\ UNCHANGED fn_vars

Next == Call \/ ParseLine \/ Return \/ Reset

Spec == Init /\ [][Next]_vars

-----------------------------------------------------------------------------
(* extract_amount called on its own, on every short token and on amounts  *)
(* with currency marks                                                    *)

TokenChars == {"0", "5", ",", ".", "euro", "x"}
MaxTokenLen == 3
Tokens == UNION {[1..n -> TokenChars] : n \in 0..MaxTokenLen}

\* amounts as the logs write them: a number between two optional currency
\* marks
MarkParts ==
    {<< >>, EuroSign, PoundSign, DollarSign, BadEuro, BadPound, EUR, <<" ">>}
NumberParts ==
    {<<"1", ",", "2", "3", "4", ".", "5", "0">>,
     <<"3", "4", "9", "1", ".", "9", "4">>,
     <<"5", "0", "0">>, <<"1", "2", "x", ".", "5">>, <<",", ".", "5">>,
     <<"7", ".", "-", "2", "5">>, <<",">>}
MoneyTexts == {p \o n \o q : p \in MarkParts, n \in NumberParts, q \in MarkParts}

InitExtractAmount ==
    /\ pc = "idle"
    /\ csv_file_path = None
    /\ raw_data = None
    /\ file_text = << >>
    /\ valid_lines = << >>
    /\ idx = 0
    /\ cleaned_records = << >>
    /\ trace = << >>
    /\ stdout = << >>
    /\ df = None
    /\ fn_arg \in Tokens \cup MoneyTexts
    /\ fn_out = None

CallExtractAmount ==
    /\ IsNone(fn_out)
    /\ fn_out' = Some(extract_amount(fn_arg))
    /\ UNCHANGED <<fn_arg, batch_vars>>

SpecExtractAmount == InitExtractAmount /\ [][CallExtractAmount]_vars

-----------------------------------------------------------------------------
(* parse_transaction_line called on its own: the sample lines, trimmed, the *)
(* lines of the triple-colon layouts (patterns 6, 8 and 9) and the lines of *)
(* the double-colon layout (pattern 1) made of the parts below              *)

StampsDmy ==
    {<<"1", "4", "/", "0", "5", "/", "2", "0", "2", "3", " ", "1", "4", ":",
       "0", "5", ":", "3", "1">>,
     <<"3", "1", "/", "0", "2", "/", "2", "0", "2", "3", " ", "1", "4", ":",
       "0", "5", ":", "3", "1">>}
StampsIso ==
    {<<"2", "0", "2", "3", "-", "0", "5", "-", "1", "4", " ", "1", "4", ":",
       "0", "5", ":", "3", "1">>,
     <<"2", "0", "2", "3", "-", "0", "2", "-", "3", "0", " ", "1", "4", ":",
       "0", "5", ":", "3", "1">>}
AmountParts == {<<"5", "0", "0">>, <<"1", ",", "5">>, <<"1", ".", ".", "5">>}
SymbolParts == {<< >>, EuroSign, PoundSign, DollarSign, BadEuro, BadPound}
PlaceParts ==
    {<<"L", "e", "e", "d", "s">>, <<"N", "o", "n", "e">>, <<"Acirc">>,
     <<"A", "T", "M", " ", " ", "L", "o", "c", "a", "t", "i", "o", "n">>}

TripleColonLines ==
    {st \o <<" ", ":", ":", ":", " ", "u", "1", " ", "*", "*", "*", " ", "T", "O",
       "P", "-", "U", "P", " ", ":", ":", ":", " ", "a", "m", "t", ":">>
        \o am \o sy \o <<" ", "@", " ">> \o pl \o <<" ", "<", "D", ">">> :
     st \in StampsDmy, am \in AmountParts, sy \in SymbolParts, pl \in PlaceParts}
DoubleColonLines ==
    {st \o <<":", ":", "u", "s", "e", "r", "1", "2", "3", ":", ":", "t", "o", "p",
       "-", "u", "p", ":", ":">> \o am \o <<":", ":">> \o pl
        \o <<":", ":">> \o dv :
     st \in StampsIso, am \in AmountParts \cup {<<",">>}, pl \in PlaceParts,
     dv \in {<<"D", "e", "v", "i", "c", "e">>, NullText}}

ParseLineInputs ==
    TripleColonLines \cup DoubleColonLines \cup {Strip(l) : l \in RawLinePool}

InitParseLine ==
    /\ pc = "idle"
    /\ csv_file_path = None
    /\ raw_data = None
    /\ file_text = << >>
    /\ valid_lines = << >>
    /\ idx = 0
    /\ cleaned_records = << >>
    /\ trace = << >>
    /\ stdout = << >>
    /\ df = None
    /\ fn_arg \in ParseLineInputs
    /\ fn_out = None

CallParseLine ==
    /\ IsNone(fn_out)
    /\ fn_out' = Some(parse_transaction_line(fn_arg, 1))
    /\ UNCHANGED <<fn_arg, batch_vars>>

SpecParseLine == InitParseLine /\ [][CallParseLine]_vars

-----------------------------------------------------------------------------
(* parse_datetime called on its own: texts in the two layouts, with fields  *)
(* in and out of range, and texts in neither                                *)

YearParts == {<<"0", "0", "0", "0">>, <<"2", "0", "2", "3">>, <<"2", "0", "2", "4">>}
MonthParts == {<<"0", "0">>, <<"0", "2">>, <<"1", "2">>, <<"1", "3">>}
DayParts == {<<"0", "0">>, <<"2", "9">>, <<"3", "0">>, <<"3", "1">>}
TimeParts ==
    {<<"1", "4", ":", "0", "5", ":", "3", "1">>,
     <<"2", "4", ":", "0", "0", ":", "0", "0">>,
     <<"2", "3", ":", "5", "9", ":", "6", "0">>}

IsoTexts ==
    {y \o <<"-">> \o m \o <<"-">> \o d \o <<" ">> \o t :
     y \in YearParts, m \in MonthParts, d \in DayParts, t \in TimeParts}
DmyTexts ==
    {d \o <<"/">> \o m \o <<"/">> \o y \o <<" ">> \o t :
     y \in YearParts, m \in MonthParts, d \in DayParts, t \in TimeParts}
OtherTexts ==
    {<< >>, NoneText, <<"N", "o", "n", "e">>, <<"N", "O", "N", "E">>,
     <<"n", "o", "t", "-", "a", "-", "d", "a", "t", "e">>,
     <<"2", "0", "2", "3", "-", "0", "5", "-", "1", "4">>,
     <<"2", "0", "2", "3", "-", "0", "5", "-", "1", "4", "T", "1", "4", ":",
       "0", "5", ":", "3", "1">>,
     <<"2", "0", "2", "3", "-", "0", "5", "-", "1", "4", " ", "1", "4", ":",
       "0", "5", ":", "3", "1", "\n">>,
     <<"1", "4", "/", "0", "5", "/", "2", "0", "2", "3", " ", "1", "4", ":",
       "0", "5", ":", "3", "1", "\n">>,
     <<" ", "2", "0", "2", "3", "-", "0", "5", "-", "1", "4", " ", "1", "4",
       ":", "0", "5", ":", "3", "1">>,
     <<"2", "0", "2", "3", "/", "0", "5", "/", "1", "4", " ", "1", "4", ":",
       "0", "5", ":", "3", "1">>,
     <<"1", "4", "-", "0", "5", "-", "2", "0", "2", "3", " ", "1", "4", ":",
       "0", "5", ":", "3", "1">>,
     <<"2", "0", "2", "3", "-", "5", "-", "1", "4", " ", "1", "4", ":", "0",
       "5", ":", "3", "1">>,
     <<"2", "0", "2", "3", "-", "0", "5", "-", "1", "4", " ", "1", "4", ":",
       "0", "5">>}

DateTexts == IsoTexts \cup DmyTexts \cup OtherTexts

InitParseDatetime ==
    /\ pc = "idle"
    /\ csv_file_path = None
    /\ raw_data = None
    /\ file_text = << >>
    /\ valid_lines = << >>
    /\ idx = 0
    /\ cleaned_records = << >>
    /\ trace = << >>
    /\ stdout = << >>
    /\ df = None
    /\ fn_arg \in DateTexts
    /\ fn_out = None

CallParseDatetime ==
    /\ IsNone(fn_out)
    /\ fn_out' = Some(parse_datetime(fn_arg))
    /\ UNCHANGED <<fn_arg, batch_vars>>

SpecParseDatetime == InitParseDatetime /\ [][CallParseDatetime]_vars

-----------------------------------------------------------------------------
(* clean_field called on its own: no field, every short field over the     *)
(* characters below, and some longer ones                                  *)

FieldChars == {"a", " ", "\t", "Acirc", "pound", "acirc", "sbquo", "notsign"}
MaxFieldLen == 3
ShortFields == UNION {[1..n -> FieldChars] : n \in 0..MaxFieldLen}
LongFields ==
    {NoneText, NullText, <<"N", "o", "n", "e">>, <<"N", "U", "L", "L">>,
     <<"n", "U", "l", "L">>, <<" ", "n", "o", "n", "e", " ">>,
     <<"Acirc", "n", "o", "n", "e">>, <<"n", "o", "n", "e", "s">>,
     <<"A", "T", "M", " ", " ", "L", "o", "c", "a", "t", "i", "o", "n", "\t">>,
     <<" ", "acirc", "sbquo", "notsign", " ", "\t", "Acirc", "pound",
       "sbquo", " ">>,
     <<"a", "\r", "\n", "b", "acirc", "Acirc", "sbquo", "notsign">>}
FieldInputs == {None} \cup {Some(f) : f \in ShortFields \cup LongFields}

InitCleanField ==
    /\ pc = "idle"
    /\ csv_file_path = None
    /\ raw_data = None
    /\ file_text = << >>
    /\ valid_lines = << >>
    /\ idx = 0
    /\ cleaned_records = << >>
    /\ trace = << >>
    /\ stdout = << >>
    /\ df = None
    /\ fn_arg \in FieldInputs
    /\ fn_out = None

CallCleanField ==
    /\ IsNone(fn_out)
    /\ fn_out' = Some(clean_field_optional(fn_arg))
    /\ UNCHANGED <<fn_arg, batch_vars>>

SpecCleanField == InitCleanField /\ [][CallCleanField]_vars

-----------------------------------------------------------------------------
(* get_currency_code called on its own: no symbol, and the symbols, codes  *)
(* and other texts below between optional whitespace                       *)

SymbolTexts ==
    {<< >>, EuroSign, BadEuro, EUR, PoundSign, BadPound, GBP, DollarSign, USD,
     <<"e", "u", "r">>, <<"U", "S", "$">>, <<"x">>, <<"E", " ", "U", "R">>,
     <<"euro", "pound">>, <<"U", "S", "D", "T">>, <<"Acirc">>}
PadTexts == {<< >>, <<" ">>, <<"\t">>, <<" ", "\n">>}
SymbolInputs ==
    {None} \cup {Some(a \o t \o b) : a \in PadTexts, t \in SymbolTexts, b \in PadTexts}

InitCurrencyCode ==
    /\ pc = "idle"
    /\ csv_file_path = None
    /\ raw_data = None
    /\ file_text = << >>
    /\ valid_lines = << >>
    /\ idx = 0
    /\ cleaned_records = << >>
    /\ trace = << >>
    /\ stdout = << >>
    /\ df = None
    /\ fn_arg \in SymbolInputs
    /\ fn_out = None

CallCurrencyCode ==
    /\ IsNone(fn_out)
    /\ fn_out' = Some(get_currency_code(fn_arg))
    /\ UNCHANGED <<fn_arg, batch_vars>>

SpecCurrencyCode == InitCurrencyCode /\ [][CallCurrencyCode]_vars

-----------------------------------------------------------------------------
(* The loop over valid_lines run by workers: the lines are parsed in any    *)
(* order, up to NumWorkers at a time; each worker runs the body of the loop *)
(* for the line it took, with the ordinal of that line; the records are    *)
(* put in the order of their ordinals before the frame is built.  fn_arg   *)
(* holds the ordinals of the lines being parsed.                           *)

NumWorkers == 2
WorkerBatchLen == 3
WorkerPool == {LineSimple, LineTripleSuffixBad, LineMalformedLower}
WorkerBlobs ==
    {Join(ls) : ls \in UNION {[1..n -> WorkerPool] : n \in 1..WorkerBatchLen}}

\* the records in the order of their row_id
SortByOrdinal(records) ==
    LET ids == {records[i].row_id : i \in 1..Len(records)}
    IN  [n \in 1..Len(records) |->
            LET id == CHOOSE x \in ids : Cardinality({y \in ids : y < x}) = n - 1
            IN  records[CHOOSE i \in 1..Len(records) : records[i].row_id = id]]

InitWorkers ==
    /\ pc = "idle"
    /\ csv_file_path = None
    /\ raw_data = None
    /\ file_text = << >>
    /\ valid_lines = << >>
    /\ idx = 0
    /\ cleaned_records = << >>
    /\ trace = << >>
    /\ stdout = << >>
    /\ df = None
    /\ fn_arg = {}
    /\ fn_out = None

\* clean_transaction_logs is called with a text: the filter
CallWorkers ==
    /\ pc = "idle"
    /\ \E b \in WorkerBlobs :
          /\ raw_data' = Some(b)
          /\ valid_lines' = FilterLines(b)
    /\ pc' = "loop"
    /\ UNCHANGED <<csv_file_path, file_text, idx, cleaned_records, trace,
                   stdout, df>>
    /\ UNCHANGED fn_vars

\* the ordinals of the lines taken so far
Taken == fn_arg \cup {trace[i].row_id : i \in 1..Len(trace)}

\* a free worker takes a line no worker has taken
WorkerTake ==
    /\ pc = "loop"
    /\ Cardinality(fn_arg) < NumWorkers
    /\ \E k \in (1..Len(valid_lines)) \ Taken : fn_arg' = fn_arg \cup {k}
    /\ UNCHANGED <<batch_vars, fn_out>>

\* WorkerParse numbering the line by the lines finished so far
WorkerParseCompletionOrdinal ==
    /\ pc = "loop"
    /\ \E k \in fn_arg :
        \E r \in {parse_transaction_line(valid_lines[k], idx + 1)} :
           /\ cleaned_records' =
                 IF IsNone(r.record) THEN cleaned_records
                 ELSE Append(cleaned_records, r.record[1])
           /\ trace' = Append(trace, [line |-> valid_lines[k], row_id |-> k,
                                      grammar |-> r.grammar, tried |-> r.tried,
                                      raised |-> r.raised,
                                      produced |-> ~IsNone(r.record)])
           /\ stdout' = stdout \o r.printed
           /\ fn_arg' = fn_arg \ {k}
    /\ idx' = idx + 1
    /\ UNCHANGED <<pc, csv_file_path, raw_data, file_text, valid_lines, df,
                   fn_out>>

\* a worker runs the body of the loop for its line k, with the ordinal k
WorkerParse ==
    /\ pc = "loop"
    /\ \E k \in fn_arg :
        \E r \in {parse_transaction_line(valid_lines[k], k)} :
           /\ cleaned_records' =
                 IF IsNone(r.record) THEN cleaned_records
                 ELSE Append(cleaned_records, r.record[1])
           /\ trace' = Append(trace, [line |-> valid_lines[k], row_id |-> k,
                                      grammar |-> r.grammar, tried |-> r.tried,
                                      raised |-> r.raised,
                                      produced |-> ~IsNone(r.record)])
           /\ stdout' = stdout \o r.printed
           /\ fn_arg' = fn_arg \ {k}
    /\ idx' = idx + 1
    /\ UNCHANGED <<pc, csv_file_path, raw_data, file_text, valid_lines, df,
                   fn_out>>

\* every line is parsed: the records are ordered and the frame is built
\* and returned
Gather ==
    /\ pc = "loop"
    /\ idx = Len(valid_lines)
    /\ cleaned_records' = SortByOrdinal(cleaned_records)
    /\ df' = Some(BuildFrame(SortByOrdinal(cleaned_records)))
    /\ pc' = "returned"
    /\ UNCHANGED <<csv_file_path, raw_data, file_text, valid_lines, idx,
                   trace, stdout>>
    /\ UNCHANGED fn_vars

NextWorkers == CallWorkers \/ WorkerTake \/ WorkerParse \/ Gather \/ Reset

SpecWorkers == InitWorkers /\ [][NextWorkers]_vars

-----------------------------------------------------------------------------
(* One batch after another: when a call is over, fn_out keeps what the     *)
(* call parsed (each line with its ordinal and its outcome), and the next  *)
(* call starts from the state of a fresh cleaner.                          *)

\* the outcome of each line of the batch: the record appended for it, if any
Outcomes ==
    [i \in 1..Len(trace) |->
        [line |-> trace[i].line, row_id |-> trace[i].row_id,
         outcome |->
            IF trace[i].produced
            THEN Some(cleaned_records[
                     Cardinality({j \in 1..i : trace[j].produced})])
            ELSE None]]

InitBatches ==
    /\ pc = "idle"
    /\ csv_file_path = None
    /\ raw_data = None
    /\ file_text = << >>
    /\ valid_lines = << >>
    /\ idx = 0
    /\ cleaned_records = << >>
    /\ trace = << >>
    /\ stdout = << >>
    /\ df = None
    /\ fn_arg = << >>
    /\ fn_out = << >>

\* the call is over; the next call finds nothing of it in the cleaner
NextBatch ==
    /\ pc = "returned"
    /\ pc' = "idle"
    /\ csv_file_path' = None
    /\ raw_data' = None
    /\ file_text' = << >>
    /\ valid_lines' = << >>
    /\ idx' = 0
    /\ cleaned_records' = << >>
    /\ trace' = << >>
    /\ stdout' = << >>
    /\ df' = None
    /\ fn_out' = Outcomes
    /\ UNCHANGED fn_arg

NextBatches == CallWorkers \/ ParseLine \/ Return \/ NextBatch

SpecBatches == InitBatches /\ [][NextBatches]_vars

-----------------------------------------------------------------------------
(* parse_transaction_line called on lines of each of the nine layouts that  *)
(* differ in the transaction type only                                      *)

TypeTokens ==
    {<<"t", "o", "p", "-", "u", "p">>, <<"T", "O", "P", "-", "U", "P">>,
     <<"T", "o", "p", "_", "U", "p">>, <<"a", "-", "B", "-", "c">>,
     <<"X">>, <<"d", "e", "b", "i", "t">>,
     <<"c", "a", "s", "h", "-", "O", "U", "T">>}
\* the text before and the text after the transaction type in a line of
\* each layout
TypeLineParts ==
    <<<<<<"2", "0", "2", "3", "-", "0", "5", "-", "1", "4", " ", "1", "4",
          ":", "0", "5", ":", "3", "1", ":", ":", "u", "1", ":", ":">>,
        <<":", ":", "5", "0", "0", ":", ":", "L", "e", "e", "d", "s", ":",
          ":", "D">>>>,
      <<<<"u", "s", "r", ":", "u", "1", "|">>,
        <<"|", "pound", "5", "0", "0", "|", "L", "e", "e", "d", "s", "|",
          "2", "0", "2", "3", "-", "0", "5", "-", "1", "4", " ", "1", "4",
          ":", "0", "5", ":", "3", "1", "|", "D">>>>,
      <<<<"2", "0", "2", "3", "-", "0", "5", "-", "1", "4", " ", "1", "4",
          ":", "0", "5", ":", "3", "1", " ", ">", ">", " ", "[", "u", "1",
          "]", " ", "d", "i", "d", " ">>,
        <<" ", "-", " ", "a", "m", "t", "=", "euro", "5", " ", "-", " ",
          "L", "e", "e", "d", "s", " ", "/", "/", " ", "d", "e", "v", ":",
          "D">>>>,
      <<<<"2", "0", "2", "3", "-", "0", "5", "-", "1", "4", " ", "1", "4",
          ":", "0", "5", ":", "3", "1", " ", "|", " ", "u", "s", "e", "r",
          ":", " ", "u", "1", " ", "|", " ", "t", "x", "n", ":", " ">>,
        <<" ", "o", "f", " ", "$", "5", " ", "f", "r", "o", "m", " ", "L",
          "e", "e", "d", "s", " ", "|", " ", "d", "e", "v", "i", "c", "e",
          ":", " ", "D">>>>,
      <<<<"2", "0", "2", "3", "-", "0", "5", "-", "1", "4", " ", "1", "4",
          ":", "0", "5", ":", "3", "1", " ", "-", " ", "u", "s", "e", "r",
          "=", "u", "1", " ", "-", " ", "a", "c", "t", "i", "o", "n", "=">>,
        <<" ", "7", ".", "5", " ", "-", " ", "A", "T", "M", ":", " ", "L",
          "e", "e", "d", "s", " ", "-", " ", "d", "e", "v", "i", "c", "e",
          "=", "D">>>>,
      <<<<"1", "4", "/", "0", "5", "/", "2", "0", "2", "3", " ", "1", "4",
          ":", "0", "5", ":", "3", "1", " ", ":", ":", ":", " ", "u", "1",
          " ", "*", "*", "*", " ">>,
        <<" ", ":", ":", ":", " ", "a", "m", "t", ":", "$", "5", "0", "0",
          " ", "@", " ", "L", "e", "e", "d", "s", " ", "<", "D", ">">>>>,
      <<<<"u", "1", " ", "2", "0", "2", "3", "-", "0", "5", "-", "1", "4",
          " ", "1", "4", ":", "0", "5", ":", "3", "1", " ">>,
        <<" ", "1", ",", "5", "0", "0", " ", "L", "e", "e", "d", "s", " ",
          "D">>>>,
      <<<<"1", "4", "/", "0", "5", "/", "2", "0", "2", "3", " ", "1", "4",
          ":", "0", "5", ":", "3", "1", " ", ":", ":", ":", " ", "u", "1",
          " ", "*", "*", "*", " ">>,
        <<" ", ":", ":", ":", " ", "a", "m", "t", ":", "5", "0", "0",
          "euro", " ", "@", " ", "L", "e", "e", "d", "s", " ", "<", "D",
          ">">>>>,
      <<<<"1", "4", "/", "0", "5", "/", "2", "0", "2", "3", " ", "1", "4",
          ":", "0", "5", ":", "3", "1", " ", ":", ":", ":", " ", "u", "1",
          " ", "*", "*", "*", " ">>,
        <<" ", ":", ":", ":", " ", "a", "m", "t", ":", "5", "0", "0",
          "acirc", "sbquo", "notsign", " ", "@", " ", "L", "e", "e", "d",
          "s", " ", "<", "D", ">">>>>>>
TypeLines ==
    {TypeLineParts[g][1] \o t \o TypeLineParts[g][2] :
        g \in 1..NumPatterns, t \in TypeTokens}

InitTypes ==
    /\ pc = "idle"
    /\ csv_file_path = None
    /\ raw_data = None
    /\ file_text = << >>
    /\ valid_lines = << >>
    /\ idx = 0
    /\ cleaned_records = << >>
    /\ trace = << >>
    /\ stdout = << >>
    /\ df = None
    /\ fn_arg \in TypeLines
    /\ fn_out = None

SpecTypes == InitTypes /\ [][CallParseLine]_vars

-----------------------------------------------------------------------------
(* TransactionCleanerFactory (factory.py).  fn_arg holds the class          *)
(* attribute _registry, a function from the registered names to classes,    *)
(* and the names for which register has returned a decorator; trace is the  *)
(* list of the decorator applications made so far; fn_out holds the last    *)
(* call of get_cleaner: its name, how many applications had been made, and  *)
(* the class of the instance returned or the raise of CleanerNotFoundError. *)

MaxRegistrations == 3
CleanerNames == {"synthetic", "legacy"}
CleanerClasses == {"SyntheticCleaner", "LegacyCleaner"}

InitFactory ==
    /\ pc = "idle"
    /\ csv_file_path = None
    /\ raw_data = None
    /\ file_text = << >>
    /\ valid_lines = << >>
    /\ idx = 0
    /\ cleaned_records = << >>
    /\ trace = << >>
    /\ stdout = << >>
    /\ df = None
    /\ fn_arg = [_registry |-> << >>, decorators |-> {}]
    /\ fn_out = None

\* register(name): returns the decorator, which holds the name
register ==
    /\ \E name \in CleanerNames :
          fn_arg' = [fn_arg EXCEPT !.decorators = @ \cup {name}]
    /\ UNCHANGED <<batch_vars, fn_out>>

\* _decorator keeping the class already registered under the name
_decoratorKeepFirst ==
    /\ Len(trace) < MaxRegistrations
    /\ \E name \in fn_arg.decorators : \E cleaner_cls \in CleanerClasses :
          /\ fn_arg' =
                [fn_arg EXCEPT !._registry =
                    [n \in (DOMAIN @) \cup {name} |->
                        IF n \in DOMAIN @ THEN @[n] ELSE cleaner_cls]]
          /\ trace' = Append(trace, [name |-> name, cleaner_cls |-> cleaner_cls])
    /\ UNCHANGED <<pc, csv_file_path, raw_data, file_text, valid_lines, idx,
                   cleaned_records, stdout, df, fn_out>>

\* _decorator(cleaner_cls): cls._registry[name] = cleaner_cls
_decorator ==
    /\ Len(trace) < MaxRegistrations
    /\ \E name \in fn_arg.decorators : \E cleaner_cls \in CleanerClasses :
          /\ fn_arg' =
                [fn_arg EXCEPT !._registry =
                    [n \in (DOMAIN @) \cup {name} |->
                        IF n = name THEN cleaner_cls ELSE @[n]]]
          /\ trace' = Append(trace, [name |-> name, cleaner_cls |-> cleaner_cls])
    /\ UNCHANGED <<pc, csv_file_path, raw_data, file_text, valid_lines, idx,
                   cleaned_records, stdout, df, fn_out>>

\* get_cleaner(name): CleanerNotFoundError when the name is not a key of
\* _registry, an instance of the class under the name otherwise
get_cleaner ==
    /\ \E name \in CleanerNames :
          fn_out' =
            IF name \notin DOMAIN fn_arg._registry
            THEN Some([name |-> name, at |-> Len(trace), raised |-> TRUE,
                       instance_of |-> None])
            ELSE Some([name |-> name, at |-> Len(trace), raised |-> FALSE,
                       instance_of |-> Some(fn_arg._registry[name])])
    /\ UNCHANGED <<batch_vars, fn_arg>>

NextFactory == register \/ _decorator \/ get_cleaner

SpecFactory == InitFactory /\ [][NextFactory]_vars

-----------------------------------------------------------------------------
(* Properties *)

\* the text the current call filters
RawContent == IF Truthy(csv_file_path) THEN file_text ELSE raw_data[1]
\* the call got past the choice of the input
Started == pc \in {"loop", "returned"}
\* the rows of the returned frame
Rows == df[1].rows
\* the patterns that match a line
MatchingGrammars(line) ==
    {g \in 1..NumPatterns : ReMatch(Pattern(g), line).ok}
UpTo(n) == [i \in 1..n |-> i]
Dropped(t) == ~t.produced

\* C1: the patterns are tried in the order 1..9 and the first that matches
\* is used: a parsed line is bound by the lowest-numbered pattern matching
\* it, its record is the one that pattern's extraction gives, and no pattern
\* after it is matched against the line.
C1_FirstMatchWins ==
    \A k \in 1..Len(trace) :
        LET t == trace[k]
            M == MatchingGrammars(t.line)
        IN  IF M = {}
            THEN t.grammar = 0 /\ t.tried = UpTo(NumPatterns) /\ ~t.produced
            ELSE LET g == Min(M)
                     e == Extract(g, ReMatch(Pattern(g), t.line).caps)
                 IN  /\ t.grammar = g
                     /\ t.tried = UpTo(g)
                     /\ t.produced <=> ~e.raised
                     /\ t.produced =>
                          \E i \in 1..Len(cleaned_records) :
                              cleaned_records[i] = MakeRecord(t.row_id, t.line, e.fields)

\* a line matched by two patterns has produced a record
C1_Witness ==
    \E k \in 1..Len(trace) :
        /\ trace[k].produced
        /\ Cardinality(MatchingGrammars(trace[k].line)) >= 2

\* C2: whenever a path or a text is supplied the call returns a frame and
\* never raises; every filtered line is parsed, and a line that matched no
\* pattern or whose extraction raised contributes no row.
C2_SuppliedInputReturns ==
    /\ (~IsNone(csv_file_path) \/ ~IsNone(raw_data)) => pc # "raised"
    /\ pc = "returned" =>
         /\ ~IsNone(df)
         /\ Len(trace) = Len(valid_lines)
         /\ \A k \in 1..Len(trace) :
                Dropped(trace[k]) =>
                    \A i \in 1..Len(Rows) : Rows[i].row_id # k

\* C2 for the inputs the code takes as supplied (a non-empty path or text)
C2_AcceptedInputReturns ==
    /\ (Truthy(csv_file_path) \/ Truthy(raw_data)) => pc # "raised"
    /\ pc = "returned" =>
         /\ ~IsNone(df)
         /\ Len(trace) = Len(valid_lines)
         /\ \A k \in 1..Len(trace) :
                Dropped(trace[k]) =>
                    \A i \in 1..Len(Rows) : Rows[i].row_id # k

\* C3: in a returned frame row_id increases strictly and is the 1-based
\* position of the row's line in the filtered lines.
C3_RowIdIsFilteredPosition ==
    pc = "returned" =>
        \A i \in 1..Len(Rows) :
            /\ Rows[i].row_id \in 1..Len(valid_lines)
            /\ Rows[i].original_log = valid_lines[Rows[i].row_id]
            /\ trace[Rows[i].row_id].produced
            /\ \A j \in 1..Len(Rows) : i < j => Rows[i].row_id < Rows[j].row_id

\* a row follows a line the filter removed and a line the parser dropped
C3_Witness ==
    /\ pc = "returned"
    /\ Len(SplitLines(RawContent)) > Len(valid_lines)
    /\ \E i \in 1..Len(Rows) : Rows[i].row_id > i

\* C4: the empty text returns an empty frame without an error, and a call
\* fails only when neither a path nor a text is supplied.
C4_EmptyTextReturnsEmptyFrame ==
    /\ (IsNone(csv_file_path) /\ raw_data = Some(<< >>)) =>
         /\ pc # "raised"
         /\ pc = "returned" => Rows = << >>
    /\ pc = "raised" => IsNone(csv_file_path) /\ IsNone(raw_data)

\* C5: extract_amount never raises, and a token without a numeric value
\* gives a missing amount with the currency GBP.
C5_ExtractAmountNeverRaises ==
    ~IsNone(fn_out) =>
        /\ ~fn_out[1].raised
        /\ (\A i \in 1..Len(fn_arg) : fn_arg[i] \notin Digit) =>
             /\ IsNone(fn_out[1].amount)
             /\ fn_out[1].currency = Some(GBP)

\* C6: every row of a returned frame has the currency EUR, GBP or USD.
C6_CurrencyIsACode ==
    pc = "returned" =>
        \A i \in 1..Len(Rows) : Rows[i].currency \in {Some(EUR), Some(GBP), Some(USD)}

\* a returned row whose amount is missing, and one whose amount is present
C6_Witness ==
    /\ pc = "returned"
    /\ \E i \in 1..Len(Rows) : IsNone(Rows[i].amount)
    /\ \E i \in 1..Len(Rows) : ~IsNone(Rows[i].amount)

\* the amount field of a line pattern g matched with the groups c
AmountField(g, c) == IF g = 2 THEN c[3] ELSE c[4]

\* C7: a line matched by a pattern yields a record whatever its amount field
\* holds (the amount never makes the parse raise), and the record's amount
\* is missing only when the amount field holds no digit.
C7_AmountNeverRaises ==
    \A k \in 1..Len(trace) :
        LET t == trace[k]
        IN  t.grammar # 0 =>
              /\ ~t.raised
              /\ t.produced
              /\ \A i \in 1..Len(cleaned_records) :
                    (cleaned_records[i].row_id = k /\ IsNone(cleaned_records[i].amount))
                    => LET f == AmountField(t.grammar,
                                            ReMatch(Pattern(t.grammar), t.line).caps)
                       IN  \A n \in 1..Len(f) : f[n] \notin Digit

\* C8: when the extraction of the first matching pattern raises, the line
\* gives no record, no later pattern is tried, and the batch goes on.
C8_RaisingLineIsDropped ==
    \A k \in 1..Len(trace) :
        trace[k].raised =>
            /\ ~trace[k].produced
            /\ \A i \in 1..Len(cleaned_records) : cleaned_records[i].row_id # k
            /\ trace[k].grammar = Min(MatchingGrammars(trace[k].line))
            /\ trace[k].tried = UpTo(trace[k].grammar)
            /\ pc = "loop" => idx = Len(trace)
            /\ pc = "returned" =>
                 /\ Len(trace) = Len(valid_lines)
                 /\ \A i \in 1..Len(Rows) : Rows[i].row_id # k

\* a line whose first matching pattern raised while a later pattern matches
\* it too, followed by a line that gave a record
C8_Witness ==
    /\ pc = "returned"
    /\ \E k \in 1..(Len(trace) - 1) :
        /\ trace[k].raised
        /\ Cardinality(MatchingGrammars(trace[k].line)) >= 2
        /\ trace[k + 1].produced

\* C9: every filtered line is parsed once, in order, and ends assembled (one
\* record) or dropped (none); no line gives two records.
C9_ZeroOrOneRecordPerLine ==
    /\ Len(trace) = idx
    /\ idx <= Len(valid_lines)
    /\ pc = "returned" => idx = Len(valid_lines)
    /\ \A k \in 1..Len(trace) :
        /\ trace[k].row_id = k
        /\ trace[k].line = valid_lines[k]
        /\ Cardinality({i \in 1..Len(cleaned_records) : cleaned_records[i].row_id = k})
             = IF trace[k].produced THEN 1 ELSE 0
    /\ Len(cleaned_records) = Cardinality({k \in 1..Len(trace) : trace[k].produced})

\* a finished batch with an assembled line and a dropped line
C9_Witness ==
    /\ pc = "returned"
    /\ \E k \in 1..Len(trace) : trace[k].produced
    /\ \E k \in 1..Len(trace) : Dropped(trace[k])

\* C10: the filtered lines are, in input order, the trimmed lines of the
\* blob that are not empty, not the quoted-empty token, not MALFORMED_LOG and
\* do not begin with raw_log, compared with regard to case.
C10_FilterKeepsExactlyTheValidLines ==
    Started =>
        LET raw == SplitLines(RawContent)
            kept == {i \in 1..Len(raw) :
                        /\ Strip(raw[i]) # << >>
                        /\ Strip(raw[i]) # QuotedEmpty
                        /\ Strip(raw[i]) # MalformedLog
                        /\ ~StartsWith(Strip(raw[i]), RawLog)}
            \* the n-th kept line
            nth(n) == CHOOSE i \in kept : Cardinality({j \in kept : j < i}) = n - 1
        IN  /\ Len(valid_lines) = Cardinality(kept)
            /\ \A n \in 1..Len(valid_lines) : valid_lines[n] = Strip(raw[nth(n)])

\* MALFORMED_LOG and a header line were removed, the lower-case
\* malformed_log after them was kept, trimmed
C10_Witness ==
    /\ Started
    /\ valid_lines = <<LowerStr(MalformedLog)>>
    /\ LET raw == SplitLines(RawContent)
       IN  /\ Len(raw) = 3
           /\ raw[1] = MalformedLog
           /\ StartsWith(raw[2], RawLog)
           /\ raw[3] # Strip(raw[3])

\* C11: a line equal to MALFORMED_LOG is removed by the filter: it is not
\* among the filtered lines, no pattern is ever matched against it, it takes
\* no row ordinal (the ordinals stay within the number of lines that are not
\* MALFORMED_LOG), and no record or row has it as original_log.
C11_MalformedLogNeverParsed ==
    Started =>
        LET raw == SplitLines(RawContent)
            others == {i \in 1..Len(raw) : Strip(raw[i]) # MalformedLog}
        IN  /\ \A k \in 1..Len(valid_lines) : valid_lines[k] # MalformedLog
            /\ Len(valid_lines) <= Cardinality(others)
            /\ \A k \in 1..Len(trace) :
                  /\ trace[k].line # MalformedLog
                  /\ trace[k].row_id <= Cardinality(others)
            /\ \A i \in 1..Len(cleaned_records) :
                  cleaned_records[i].original_log # MalformedLog
            /\ pc = "returned" =>
                  \A i \in 1..Len(Rows) : Rows[i].original_log # MalformedLog

\* the blob begins with MALFORMED_LOG and the line after it got row_id 1
C11_Witness ==
    /\ pc = "returned"
    /\ LET raw == SplitLines(RawContent)
       IN  /\ Len(raw) >= 2
           /\ raw[1] = MalformedLog
           /\ \E i \in 1..Len(Rows) :
                 Rows[i].row_id = 1 /\ Rows[i].original_log = Strip(raw[2])

\* C12: original_log of every record and of every returned row is, character
\* for character, the filtered line the record was parsed from (the trimmed
\* line of the blob at its row ordinal); extraction, cleaning and
\* post-processing leave it as it is.
C12_OriginalLogIsTheLine ==
    /\ \A i \in 1..Len(cleaned_records) :
          LET r == cleaned_records[i]
          IN  /\ r.row_id \in 1..Len(trace)
              /\ r.original_log = trace[r.row_id].line
              /\ r.original_log = valid_lines[r.row_id]
    /\ pc = "returned" =>
          /\ Len(Rows) = Len(cleaned_records)
          /\ \A i \in 1..Len(Rows) :
                /\ Rows[i].original_log = cleaned_records[i].original_log
                /\ \E n \in 1..Len(SplitLines(RawContent)) :
                      Rows[i].original_log = Strip(SplitLines(RawContent)[n])

\* a returned row whose line holds a corrupted euro sign: the currency was
\* read through it and original_log still holds it
C12_Witness ==
    /\ pc = "returned"
    /\ \E i \in 1..Len(Rows) :
          /\ Contains(Rows[i].original_log, BadEuro)
          /\ Rows[i].currency = Some(EUR)

\* what parse_transaction_line gives for a line when pattern g is the one
\* used for it
OutcomeBy(line, g) ==
    PatternMatched(line, 1, g, << >>, ReMatch(Pattern(g), line).caps)

\* C13 as stated: some line (the one at hand or any other line of the
\* inputs) matches two patterns and the record it gives depends on which of
\* the two is used.
C13_RecordDependsOnOrder ==
    \E line \in {fn_arg} \cup ParseLineInputs :
        \E g, h \in MatchingGrammars(line) :
            /\ g # h
            /\ OutcomeBy(line, g).record # OutcomeBy(line, h).record

\* C13 as amended: patterns 8 and 9 overlap (a line pattern 8 matches is
\* matched by pattern 9 too) and no other two patterns match the same line;
\* for a line two patterns match, the result of parse_transaction_line (the
\* record, or the drop when the extraction raises, and what is printed) is
\* the one either pattern gives.
C13_OverlapGivesTheSameRecord ==
    ~IsNone(fn_out) =>
        LET M == MatchingGrammars(fn_arg)
        IN  /\ 8 \in M => 9 \in M
            /\ Cardinality(M) >= 2 => M = {8, 9}
            /\ \A g \in M :
                  /\ OutcomeBy(fn_arg, g).record = fn_out[1].record
                  /\ OutcomeBy(fn_arg, g).raised = fn_out[1].raised
                  /\ OutcomeBy(fn_arg, g).printed = fn_out[1].printed

\* a line patterns 8 and 9 both match has given a record
C13_Witness ==
    /\ ~IsNone(fn_out)
    /\ MatchingGrammars(fn_arg) = {8, 9}
    /\ ~IsNone(fn_out[1].record)
    /\ fn_out[1].grammar = 8

\* C14: every returned frame, from a path or from a text and with or without
\* rows, has exactly the nine columns row_id, original_log, datetime, user_id,
\* transaction_type, amount, currency, location, device.
C14_NineColumnsAlways ==
    pc = "returned" => df[1].columns = Columns

\* the location and the device fields of a line pattern g matched with the
\* groups c
LocationField(g, c) ==
    IF g = 2 THEN c[4] ELSE IF g \in {8, 9} THEN c[6] ELSE c[5]
DeviceField(g, c) == IF g \in {8, 9} THEN c[7] ELSE c[6]
\* an empty field or the literal none or null in any letter case
IsNullLiteral(field) ==
    \/ field = << >>
    \/ /\ Len(field) = 4
       /\ field[1] \in {"n", "N"}
       /\ \/ /\ field[2] \in {"o", "O"} /\ field[3] \in {"n", "N"}
             /\ field[4] \in {"e", "E"}
          \/ /\ field[2] \in {"u", "U"} /\ field[3] \in {"l", "L"}
             /\ field[4] \in {"l", "L"}

\* C15: in a returned frame location and device are present in every row: a
\* row whose field is empty, none or null has Unknown, and every other row
\* has the value its record was given.
C15_LocationAndDevicePresent ==
    pc = "returned" =>
        /\ Len(Rows) = Len(cleaned_records)
        /\ \A i \in 1..Len(Rows) :
              LET t == trace[Rows[i].row_id]
                  c == ReMatch(Pattern(t.grammar), t.line).caps
                  rec == cleaned_records[i]
              IN  /\ ~IsNone(Rows[i].location)
                  /\ ~IsNone(Rows[i].device)
                  /\ IsNone(rec.location) <=> IsNullLiteral(LocationField(t.grammar, c))
                  /\ IsNone(rec.device) <=> IsNullLiteral(DeviceField(t.grammar, c))
                  /\ Rows[i].location =
                        IF IsNullLiteral(LocationField(t.grammar, c))
                        THEN Some(Unknown) ELSE rec.location
                  /\ Rows[i].device =
                        IF IsNullLiteral(DeviceField(t.grammar, c))
                        THEN Some(Unknown) ELSE rec.device

\* a returned row whose location was NULL and whose device was supplied
C15_Witness ==
    /\ pc = "returned"
    /\ \E i \in 1..Len(Rows) :
          /\ IsNone(cleaned_records[i].location)
          /\ Rows[i].location = Some(Unknown)
          /\ ~IsNone(cleaned_records[i].device)
          /\ Rows[i].device = cleaned_records[i].device

\* the text s has digits at the places ds and the characters of seps at the
\* other places
HasLayout(s, ds, seps) ==
    /\ Len(s) = StampLen
    /\ \A i \in 1..StampLen :
          IF i \in ds THEN s[i] \in Digit ELSE s[i] = seps[i]
\* YYYY-MM-DD HH:MM:SS
InIsoLayout(s) ==
    HasLayout(s, (1..19) \ {5, 8, 11, 14, 17},
              [i \in 1..19 |-> CASE i \in {5, 8} -> "-" [] i = 11 -> " "
                                  [] i \in {14, 17} -> ":" [] OTHER -> "0"])
\* DD/MM/YYYY HH:MM:SS
InDmyLayout(s) ==
    HasLayout(s, (1..19) \ {3, 6, 11, 14, 17},
              [i \in 1..19 |-> CASE i \in {3, 6} -> "/" [] i = 11 -> " "
                                  [] i \in {14, 17} -> ":" [] OTHER -> "0"])
\* the number written at the places a..b of s
At(s, a, b) == NumVal(SubSeq(s, a, b))

\* C16: parse_datetime returns a value for every text: a date-time only for
\* a text in one of the two layouts YYYY-MM-DD HH:MM:SS and DD/MM/YYYY
\* HH:MM:SS, whose fields it then holds, and nothing for the empty text, for
\* none in any letter case and for every text in neither layout.
C16_ParseDatetimeLayouts ==
    ~IsNone(fn_out) =>
        LET s == fn_arg
            v == fn_out[1].val
        IN  /\ ~IsNone(v) => (InIsoLayout(s) \/ InDmyLayout(s))
            /\ ~(InIsoLayout(s) /\ InDmyLayout(s))
            /\ (~IsNone(v) /\ InIsoLayout(s)) =>
                  v[1] = [year |-> At(s, 1, 4), month |-> At(s, 6, 7),
                          day |-> At(s, 9, 10), hour |-> At(s, 12, 13),
                          minute |-> At(s, 15, 16), second |-> At(s, 18, 19)]
            /\ (~IsNone(v) /\ InDmyLayout(s)) =>
                  v[1] = [year |-> At(s, 7, 10), month |-> At(s, 4, 5),
                          day |-> At(s, 1, 2), hour |-> At(s, 12, 13),
                          minute |-> At(s, 15, 16), second |-> At(s, 18, 19)]
            /\ (s = << >> \/ LowerStr(s) = NoneText) => IsNone(v)
            /\ (~InIsoLayout(s) /\ ~InDmyLayout(s)) => IsNone(v)

\* a date-time was returned for a text in the day-first layout
C16_Witness ==
    /\ ~IsNone(fn_out)
    /\ InDmyLayout(fn_arg)
    /\ ~IsNone(fn_out[1].val)
    /\ fn_out[1].val[1].day = 29
    /\ fn_out[1].val[1].month = 2

\* the characters of s that extract_amount keeps
KeptChars(s) ==
    SelectSeq(s, LAMBDA ch : ch \in Digit \cup {".", ",", "euro", "pound", "$"})
\* the first numeric run of the kept characters k: digits and commas from
\* the first of them on, then a point if one follows, then digits; given as
\* the places of its integer part and of its fraction
FirstRun(k) ==
    LET first == Min({i \in 1..Len(k) : k[i] \in Digit \cup {","}})
        intEnd == Max({e \in first..Len(k) :
                         \A n \in first..e : k[n] \in Digit \cup {","}})
        fracStart == IF intEnd < Len(k) /\ k[intEnd + 1] = "."
                     THEN intEnd + 2 ELSE intEnd + 1
        fracEnd == Max({fracStart - 1} \cup
                       {e \in fracStart..Len(k) :
                          \A n \in fracStart..e : k[n] \in Digit})
    IN  [int |-> SelectSeq(SubSeq(k, first, intEnd), LAMBDA ch : ch \in Digit),
         frac |-> SubSeq(k, fracStart, fracEnd)]
HasDigit(s) == \E i \in 1..Len(s) : s[i] \in Digit
\* the token has a numeric value: its first numeric run holds a digit
HasNumericValue(s) ==
    /\ \E i \in 1..Len(KeptChars(s)) : KeptChars(s)[i] \in Digit \cup {","}
    /\ HasDigit(FirstRun(KeptChars(s)).int \o FirstRun(KeptChars(s)).frac)
\* the currency of a token by its marks
CurrencyOfMarks(s) ==
    IF \/ \E i \in 1..Len(s) : s[i] = "euro"
       \/ \E i \in 1..(Len(s) - 2) :
             s[i] = "acirc" /\ s[i + 1] = "sbquo" /\ s[i + 2] = "notsign"
    THEN EUR
    ELSE IF \E i \in 1..Len(s) : s[i] = "pound"
    THEN GBP
    ELSE IF \E i \in 1..Len(s) : s[i] = "$"
    THEN USD
    ELSE GBP

\* C17: for a token with a numeric value extract_amount does not raise; the
\* amount is the first numeric run of the kept characters with the commas
\* removed, read as a decimal; the currency is EUR for a token holding the
\* euro sign or its corrupted form, else GBP for the pound sign or its
\* corrupted form, else USD for the dollar sign, else GBP.  The spec's two
\* examples give (1234.50, EUR) and (3491.94, EUR).
C17_ExtractAmountValue ==
    ~IsNone(fn_out) =>
        /\ HasNumericValue(fn_arg) =>
              LET run == FirstRun(KeptChars(fn_arg))
              IN  /\ ~fn_out[1].raised
                  /\ fn_out[1].amount =
                        Some([ip |-> NumVal(run.int),
                              fp |-> DropTrailingZeros(run.frac)])
                  /\ fn_out[1].currency = Some(CurrencyOfMarks(fn_arg))
        /\ fn_arg = EuroSign \o <<"1", ",", "2", "3", "4", ".", "5", "0">> =>
              /\ fn_out[1].amount = Some([ip |-> 1234, fp |-> <<"5">>])
              /\ fn_out[1].currency = Some(EUR)
        /\ fn_arg = <<"3", "4", "9", "1", ".", "9", "4">> \o BadEuro =>
              /\ fn_out[1].amount = Some([ip |-> 3491, fp |-> <<"9", "4">>])
              /\ fn_out[1].currency = Some(EUR)

\* the amount with thousands separator between a dollar and a corrupted
\* euro sign was read
C17_Witness ==
    /\ fn_arg = DollarSign \o <<"1", ",", "2", "3", "4", ".", "5", "0">> \o BadEuro
    /\ ~IsNone(fn_out)
    /\ fn_out[1].amount = Some([ip |-> 1234, fp |-> <<"5">>])
    /\ fn_out[1].currency = Some(EUR)

\* the fields a record holds
FieldsOf(rec) ==
    [datetime |-> rec.datetime, user_id |-> rec.user_id,
     transaction_type |-> rec.transaction_type, amount |-> rec.amount,
     currency |-> rec.currency, location |-> rec.location,
     device |-> rec.device]
\* the record the double-colon layout binds: the six fields in their order
\* (the date-time and the amount read, the location and the device
\* cleaned) and the currency GBP
DoubleColonFields(c) ==
    [datetime |-> parse_datetime(c[1]).val, user_id |-> Some(c[2]),
     transaction_type |-> Some(c[3]), amount |-> extract_amount(c[4]).amount,
     currency |-> Some(GBP), location |-> clean_field(c[5]),
     device |-> clean_field(c[6])]

\* C18: every line in the double-colon layout yields a record whose
\* datetime, user_id, transaction_type, amount, location and device are the
\* 1st to 6th fields of the line, with the currency GBP; the spec's example
\* line yields 2023-05-14T14:05:31, user123, top-up, 500.0, GBP,
\* 'ATM Location', 'Device'.
C18_DoubleColonBinding ==
    (~IsNone(fn_out) /\ ReMatch(pattern1, fn_arg).ok) =>
        /\ ~IsNone(fn_out[1].record)
        /\ FieldsOf(fn_out[1].record[1]) =
              DoubleColonFields(ReMatch(pattern1, fn_arg).caps)
        /\ fn_arg = LineDoubleColon =>
              FieldsOf(fn_out[1].record[1]) =
                [datetime |-> Some([year |-> 2023, month |-> 5, day |-> 14,
                                    hour |-> 14, minute |-> 5, second |-> 31]),
                 user_id |-> Some(<<"u", "s", "e", "r", "1", "2", "3">>),
                 transaction_type |-> Some(<<"t", "o", "p", "-", "u", "p">>),
                 amount |-> Some([ip |-> 500, fp |-> << >>]),
                 currency |-> Some(GBP),
                 location |-> Some(<<"A", "T", "M", " ", "L", "o", "c", "a",
                                     "t", "i", "o", "n">>),
                 device |-> Some(<<"D", "e", "v", "i", "c", "e">>)]

\* C18 for the lines whose amount field float() accepts
C18_DoubleColonBindingWhenAmountParses ==
    (/\ ~IsNone(fn_out) /\ ReMatch(pattern1, fn_arg).ok
     /\ ~extract_amount(ReMatch(pattern1, fn_arg).caps[4]).raised) =>
        /\ ~IsNone(fn_out[1].record)
        /\ fn_out[1].grammar = 1
        /\ FieldsOf(fn_out[1].record[1]) =
              DoubleColonFields(ReMatch(pattern1, fn_arg).caps)
        /\ fn_arg = LineDoubleColon =>
              /\ fn_out[1].record[1].amount = Some([ip |-> 500, fp |-> << >>])
              /\ fn_out[1].record[1].location =
                    Some(<<"A", "T", "M", " ", "L", "o", "c", "a", "t", "i",
                           "o", "n">>)

\* the characters of s at the places K, in their order
Picked(s, K) ==
    [n \in 1..Cardinality(K) |->
        s[CHOOSE i \in K : Cardinality({j \in K : j < i}) = n - 1]]
\* the field with the corrupted sequences replaced: the corrupted euro sign
\* becomes the euro sign, the corrupted pound sign the pound sign (its stray
\* character goes), and the characters of strays are removed
Repaired(field, strays) ==
    LET euros == {i \in 1..(Len(field) - 2) :
                    /\ field[i] = "acirc" /\ field[i + 1] = "sbquo"
                    /\ field[i + 2] = "notsign"}
        marked == [i \in 1..Len(field) |->
                     IF i \in euros THEN "euro" ELSE field[i]]
        kept == {i \in 1..Len(field) :
                   /\ (i - 1) \notin euros /\ (i - 2) \notin euros
                   /\ i \in euros \/ field[i] \notin strays}
    IN  Picked(marked, kept)
\* the text with every run of whitespace made one space and none at its ends
Spaced(text) ==
    LET kept == {i \in 1..Len(text) :
                   \/ text[i] \notin Space
                   \/ /\ i > 1 /\ text[i - 1] \notin Space
                      /\ \E j \in (i + 1)..Len(text) : text[j] \notin Space}
        blanked == [i \in 1..Len(text) |->
                      IF text[i] \in Space THEN " " ELSE text[i]]
    IN  Picked(blanked, kept)
\* what clean_field is to return for an optional field
Cleaned(field, strays) ==
    IF IsNone(field) \/ IsNullLiteral(field[1]) THEN None
    ELSE Some(Spaced(Repaired(field[1], strays)))

\* C19 as stated: clean_field returns nothing for no field, the empty field
\* and none or null in any letter case, and for every other field the field
\* with the corrupted euro and pound signs replaced, the stray A-circumflex
\* removed (and nothing else replaced), whitespace runs collapsed, trimmed.
C19_CleanFieldThreeSequences ==
    ~IsNone(fn_out) => fn_out[1] = Cleaned(fn_arg, {"Acirc"})

\* C19 as amended: the same, the character U+201A being removed as well.
C19_CleanFieldFourSequences ==
    ~IsNone(fn_out) => fn_out[1] = Cleaned(fn_arg, {"Acirc", "sbquo"})

\* a field with both corrupted signs, a U+201A and whitespace runs was cleaned
C19_Witness ==
    /\ fn_arg = Some(<<" ", "acirc", "sbquo", "notsign", " ", "\t", "Acirc",
                       "pound", "sbquo", " ">>)
    /\ fn_out = Some(Some(<<"euro", " ", "pound">>))

\* the text between the first and the last character of t that is not
\* whitespace
Core(t) ==
    LET inked == {i \in 1..Len(t) : t[i] \notin Space}
    IN  IF inked = {} THEN << >> ELSE SubSeq(t, Min(inked), Max(inked))

\* C20: get_currency_code gives a code for every symbol, present or not:
\* EUR for the euro sign, its corrupted form and EUR; GBP for the pound
\* sign, its corrupted form and GBP; USD for the dollar sign and USD, the
\* whitespace around the symbol ignored; GBP for a missing, an empty and
\* any other symbol.
C20_CurrencyCodeMapping ==
    ~IsNone(fn_out) =>
        /\ fn_out[1] \in {EUR, GBP, USD}
        /\ IF IsNone(fn_arg) THEN fn_out[1] = GBP
           ELSE LET core == Core(fn_arg[1])
                IN  /\ (core = <<"euro">> \/ core = <<"E", "U", "R">>
                        \/ core = <<"acirc", "sbquo", "notsign">>)
                         => fn_out[1] = EUR
                    /\ (core = <<"pound">> \/ core = <<"G", "B", "P">>
                        \/ core = <<"Acirc", "pound">>)
                         => fn_out[1] = GBP
                    /\ (core = <<"$">> \/ core = <<"U", "S", "D">>)
                         => fn_out[1] = USD
                    /\ core \notin {<<"euro">>, <<"E", "U", "R">>,
                                     <<"acirc", "sbquo", "notsign">>,
                                     <<"$">>, <<"U", "S", "D">>}
                         => fn_out[1] = GBP

\* the code USD between a tab and a newline gave USD
C20_Witness ==
    /\ fn_arg = Some(<<"\t", "U", "S", "D", " ", "\n">>)
    /\ fn_out = Some(USD)

\* the diagnostics printed so far: the lines of the output that report a
\* dropped line by its ordinal (the message of parse_datetime about a
\* date-time out of range names no line and reports no drop)
Diagnostics == SelectSeq(stdout, LAMBDA m : m.kind \in {"error", "nomatch"})
\* the first n characters of a text
Truncated(text, n) == [i \in 1..(IF Len(text) < n THEN Len(text) ELSE n) |-> text[i]]

\* C21: every dropped line has exactly one diagnostic, which carries its
\* ordinal and the beginning of its text (50 characters when the extraction
\* raised, 100 when no pattern matched); a line that gave a record has none;
\* the diagnostics come in the order of the lines, and the records and the
\* diagnostics together are as many as the lines parsed (all the filtered
\* lines once the batch has returned).
C21_OneDiagnosticPerDroppedLine ==
    /\ \A k \in 1..Len(trace) :
          LET mine == {n \in 1..Len(Diagnostics) : Diagnostics[n].row_id = k}
          IN  IF trace[k].produced THEN mine = {}
              ELSE /\ Cardinality(mine) = 1
                   /\ \A n \in mine :
                         IF trace[k].raised
                         THEN /\ Diagnostics[n].kind = "error"
                              /\ Diagnostics[n].text = Truncated(trace[k].line, 50)
                         ELSE /\ Diagnostics[n].kind = "nomatch"
                              /\ Diagnostics[n].text = Truncated(trace[k].line, 100)
    /\ \A n \in 1..Len(Diagnostics) :
          /\ Diagnostics[n].row_id \in 1..Len(trace)
          /\ \A m \in 1..Len(Diagnostics) :
                n < m => Diagnostics[n].row_id < Diagnostics[m].row_id
    /\ Len(cleaned_records) + Len(Diagnostics) = Len(trace)
    /\ pc = "returned" =>
          Len(Rows) + Len(Diagnostics) = Len(valid_lines)

\* a returned batch of three lines: one gave a record, the extraction of
\* one raised, no pattern matched one
C21_Witness ==
    /\ pc = "returned"
    /\ Len(valid_lines) = 3
    /\ Len(Rows) = 1
    /\ \E n \in 1..Len(Diagnostics) : Diagnostics[n].kind = "error"
    /\ \E n \in 1..Len(Diagnostics) : Diagnostics[n].kind = "nomatch"

\* the records of the sequential pass over the lines: each line parsed with
\* its position, the records kept in that order
SequentialRecords(lines) ==
    LET outcome == [k \in 1..Len(lines) |-> parse_transaction_line(lines[k], k)]
        kept == {k \in 1..Len(lines) : ~IsNone(outcome[k].record)}
    IN  [n \in 1..Cardinality(kept) |->
            outcome[CHOOSE k \in kept :
                        Cardinality({j \in kept : j < k}) = n - 1].record[1]]

C24_MissingInputRaises ==
    (pc # "idle" /\ IsNone(csv_file_path) /\ IsNone(raw_data)) =>
        /\ pc = "raised"
        /\ valid_lines = << >>
        /\ idx = 0
        /\ trace = << >>
        /\ cleaned_records = << >>
        /\ stdout = << >>
        /\ IsNone(df)

\* the call was made with neither input and raised
C24_Witness ==
    /\ pc = "raised"
    /\ IsNone(csv_file_path)
    /\ IsNone(raw_data)

\* the first pattern of the cascade that matches a line
FirstGrammar(line) ==
    CHOOSE g \in MatchingGrammars(line) : \A h \in MatchingGrammars(line) : g <= h
\* the place of the timestamp in the groups of a pattern
StampGroup(g) == CASE g = 2 -> 5 [] g = 7 -> 2 [] OTHER -> 1
\* the timestamp token of a line that matches a pattern
StampOf(line) ==
    ReMatch(Pattern(FirstGrammar(line)), line).caps[StampGroup(FirstGrammar(line))]
\* where the timestamp token starts in a line that matches pattern g with
\* the groups c
StampStart(g, c) ==
    CASE g = 2 -> Len(c[1]) + Len(c[2]) + Len(c[3]) + Len(c[4]) + 9
      [] g = 7 -> Len(c[1]) + 2
      [] OTHER -> 1
\* a timestamp in one of the two layouts that is no date and time of the
\* calendar
NotOnCalendar(t) ==
    \/ /\ InIsoLayout(t)
       /\ Strptime(At(t, 1, 4), At(t, 6, 7), At(t, 9, 10), At(t, 12, 13),
                   At(t, 15, 16), At(t, 18, 19)).raised
    \/ /\ InDmyLayout(t)
       /\ Strptime(At(t, 7, 10), At(t, 4, 5), At(t, 1, 2), At(t, 12, 13),
                   At(t, 15, 16), At(t, 18, 19)).raised
\* the line with its timestamp token replaced by 14 May 2023 14:05:31 in the
\* layout of the token
WithValidStamp(line) ==
    LET g == FirstGrammar(line)
        from == StampStart(g, ReMatch(Pattern(g), line).caps)
        valid == IF InIsoLayout(StampOf(line))
                 THEN <<"2", "0", "2", "3", "-", "0", "5", "-", "1", "4", " ",
                        "1", "4", ":", "0", "5", ":", "3", "1">>
                 ELSE <<"1", "4", "/", "0", "5", "/", "2", "0", "2", "3", " ",
                        "1", "4", ":", "0", "5", ":", "3", "1">>
    IN  SubSeq(line, 1, from - 1) \o valid
        \o SubSeq(line, from + StampLen, Len(line))
\* the line matches a pattern and its timestamp is in a layout but not on
\* the calendar
HasInvalidStamp(line) ==
    /\ MatchingGrammars(line) # {}
    /\ NotOnCalendar(StampOf(line))
\* the record of a line with an invalid timestamp: no datetime, the other
\* fields those of the line with a valid timestamp, and a null datetime in
\* the frame
InvalidStampRecord(line, out) ==
    /\ ~IsNone(out.record)
    /\ IsNone(out.record[1].datetime)
    /\ LET valid == parse_transaction_line(WithValidStamp(line), 1)
       IN  /\ ~IsNone(valid.record)
           /\ ~IsNone(valid.record[1].datetime)
           /\ [FieldsOf(out.record[1]) EXCEPT !.datetime = None] =
                 [FieldsOf(valid.record[1]) EXCEPT !.datetime = None]
    /\ out.record[1].original_log = line
    /\ IsNone(BuildFrame(<<out.record[1]>>).rows[1].datetime)

\* C25: a line that matches a pattern and whose timestamp is in a layout
\* but not on the calendar is not dropped: its record has no datetime and
\* the other fields as the line with a valid timestamp has them, and the
\* frame keeps the datetime null.
C25_InvalidStampKeepsTheLine ==
    (~IsNone(fn_out) /\ HasInvalidStamp(fn_arg)) =>
        InvalidStampRecord(fn_arg, fn_out[1])

\* C25 for the lines whose amount field float() accepts: the invalid
\* timestamp alone never drops the line
C25_InvalidStampAloneKeepsTheLine ==
    (~IsNone(fn_out) /\ HasInvalidStamp(fn_arg)) =>
        \/ InvalidStampRecord(fn_arg, fn_out[1])
        \/ /\ fn_out[1].raised
           /\ parse_transaction_line(WithValidStamp(fn_arg), 1).raised

\* a line with the 31st of February was parsed into a record
C25_Witness ==
    /\ ~IsNone(fn_out)
    /\ HasInvalidStamp(fn_arg)
    /\ InvalidStampRecord(fn_arg, fn_out[1])

\* the place of the transaction type in the groups of a pattern
TypeGroup(g) == IF g = 2 THEN 2 ELSE 3
\* the transaction type a layout gives a token: lower-cased in the
\* triple-colon layouts, its dashes made underscores in the arrow layout,
\* as it is in the others
NormalType(g, t) ==
    [i \in 1..Len(t) |->
        CASE g \in {6, 8, 9} /\ t[i] \in Upper -> LowerChar(t[i])
          [] g = 3 /\ t[i] = "-" -> "_"
          [] OTHER -> t[i]]

\* C26: the transaction_type of a record is the token the pattern matched,
\* lower-cased for patterns 6, 8 and 9, with every '-' replaced by '_' for
\* pattern 3, and unchanged for patterns 1, 2, 4, 5 and 7.
C26_TransactionTypePerGrammar ==
    (~IsNone(fn_out) /\ ~IsNone(fn_out[1].record)) =>
        LET g == FirstGrammar(fn_arg)
            token == ReMatch(Pattern(g), fn_arg).caps[TypeGroup(g)]
        IN  /\ fn_out[1].grammar = g
            /\ fn_out[1].record[1].transaction_type = Some(NormalType(g, token))

\* a record of the arrow layout was made from a token with dashes and
\* capitals: the dashes became underscores, the capitals stayed
C26_Witness ==
    /\ ~IsNone(fn_out)
    /\ ~IsNone(fn_out[1].record)
    /\ fn_out[1].grammar = 3
    /\ ReMatch(Pattern(3), fn_arg).caps[3] = <<"a", "-", "B", "-", "c">>
    /\ fn_out[1].record[1].transaction_type = Some(<<"a", "_", "B", "_", "c">>)

\* the class of the last of the applications that registered the name,
\* if any
LastRegistered(applications, name) ==
    LET at == {i \in 1..Len(applications) : applications[i].name = name}
    IN  IF at = {} THEN None
        ELSE Some(applications[CHOOSE i \in at : \A j \in at : j <= i].cleaner_cls)

\* C27: get_cleaner(name) returns an instance of the class most recently
\* registered under the name, and raises CleanerNotFoundError for a name
\* never registered; the registry holds exactly the last class registered
\* under each name, so that get_cleaner, which registers nothing, leaves it
\* as it was.
C27_FactoryRegistry ==
    /\ DOMAIN fn_arg._registry =
          {n \in CleanerNames : ~IsNone(LastRegistered(trace, n))}
    /\ \A n \in DOMAIN fn_arg._registry :
          Some(fn_arg._registry[n]) = LastRegistered(trace, n)
    /\ ~IsNone(fn_out) =>
          LET last == LastRegistered(SubSeq(trace, 1, fn_out[1].at), fn_out[1].name)
          IN  /\ fn_out[1].raised <=> IsNone(last)
              /\ fn_out[1].instance_of = last

\* two classes were registered under a name, one after the other, and
\* get_cleaner then returned an instance of the second
C27_Witness ==
    /\ Len(trace) = 2
    /\ trace[1].name = trace[2].name
    /\ trace[1].cleaner_cls # trace[2].cleaner_cls
    /\ ~IsNone(fn_out)
    /\ fn_out[1].at = 2
    /\ fn_out[1].name = trace[2].name
    /\ fn_out[1].instance_of = Some(trace[2].cleaner_cls)

\* the amount field of a line that matches a pattern: the group of the
\* amount, with the group of the currency symbol where the pattern has one
AmountToken(line) ==
    LET g == FirstGrammar(line)
        c == ReMatch(Pattern(g), line).caps
    IN  CASE g = 2 -> c[3]
          [] g \in {8, 9} -> c[4] \o c[5]
          [] OTHER -> c[4]

\* C28: every record has a currency before the frame is built, the fill of
\* the currency column with USD changes no row, and a row has the currency
\* USD only if the amount field of its line holds a '$'.
C28_CurrencyDefaultNeverUsed ==
    /\ \A i \in 1..Len(cleaned_records) : ~IsNone(cleaned_records[i].currency)
    /\ pc = "returned" =>
          /\ Len(Rows) = Len(cleaned_records)
          /\ \A i \in 1..Len(Rows) :
                /\ Rows[i].currency = cleaned_records[i].currency
                /\ Rows[i].currency = Some(USD) =>
                      \E k \in 1..Len(AmountToken(Rows[i].original_log)) :
                          AmountToken(Rows[i].original_log)[k] = "$"

\* a frame was returned with a row in USD, whose line has the amount $5 or
\* $500
C28_Witness ==
    /\ pc = "returned"
    /\ \E i \in 1..Len(Rows) :
          /\ Rows[i].currency = Some(USD)
          /\ cleaned_records[i].currency = Some(USD)
          /\ AmountToken(Rows[i].original_log)[1] = "$"

\* C29: clean_field applied to a cleaned value returns that value: a
\* cleaned value is never the empty string, 'none' or 'null'.
C29_CleanFieldIdempotent ==
    (~IsNone(fn_out) /\ ~IsNone(fn_out[1])) =>
        /\ fn_out[1][1] \notin {<< >>, NoneText, NullText}
        /\ clean_field(fn_out[1][1]) = fn_out[1]

\* C29 for the cleaned values that are not empty and not none or null in
\* any letter case: clean_field returns them as they are
C29_CleanFieldIdempotentOnWords ==
    (/\ ~IsNone(fn_out) /\ ~IsNone(fn_out[1])
     /\ LowerStr(fn_out[1][1]) \notin {<< >>, NoneText, NullText}) =>
        clean_field(fn_out[1][1]) = fn_out[1]

\* C30: no row of a returned frame has the empty string as its location or
\* its device: a capture that is blank or of which the cleaning leaves
\* nothing ends as "Unknown".
C30_NoEmptyLocationOrDevice ==
    (~IsNone(fn_out) /\ ~IsNone(fn_out[1].record)) =>
        LET row == BuildFrame(<<fn_out[1].record[1]>>).rows[1]
        IN  /\ row.location # Some(<< >>)
            /\ row.device # Some(<< >>)

=============================================================================
